---- MODULE Spec2Model ----
(***************************************************************************)
(* Model of the XAUT/USDT dislocation bot (src/bot): the control loop of   *)
(* runner.py with the decision engine (strategy/dislocation.py), the risk  *)
(* monitor (strategy/risk.py) and the state aggregate (state.py).          *)
(*                                                                         *)
(* Units.  Floats are modelled by exact integers:                          *)
(*   price    : half ticks        (0.005 USDT), so tick_size = 2           *)
(*   quantity : half steps        (0.0005 XAUT), so step_size = 2          *)
(*   USDT     : price * quantity  (0.0000025 USDT)                         *)
(*   time     : minutes                                                    *)
(*   percent  : a rational [num, den] with den > 0; thresholds are kept    *)
(*              in tenths of a percent and compared by cross               *)
(*              multiplication, so no comparison is rounded.               *)
(***************************************************************************)
EXTENDS Integers, Sequences, FiniteSets, TLC

VARIABLES
    state,          \* the BotState aggregate (state.py:36-47)
    mode,           \* "DRY_RUN" | "LIVE"
    cycles,         \* loop counter (runner.py:153,157)
    now,            \* wall clock, minutes
    pc,             \* position of the control loop
    bid, ask, fair, \* prices of the current tick (NoPrice = None)
    deviation,      \* deviation of the current tick (NoDeviation = None)
    buy_level,      \* result of next_buy_level in this tick ("None" if not evaluated)
    sell_step,      \* result of next_sell_step in this tick ("None" if not evaluated)
    warnings,       \* startup warnings
    warnings_cycle, \* warnings of the current tick
    requests,       \* signed exchange requests sent in the current tick
    settings_thresholds, \* settings.thresholds (config.py:13-32)
    faults,         \* failures of the exchange and the feed so far
    path_file,      \* the state file, settings.state_path (state.py:93-94)
    tmp_file,       \* the temporary file of a save (state.py:105)
    attempt,        \* _signed_request: the loop index (mexc.py:87)
    http_log,       \* _signed_request: what each attempt sent got for an answer
    sleeps,         \* _signed_request: the delays slept, in half seconds
    outcome         \* _signed_request: how the call ended ("pending" while it runs)

vars == <<state, mode, cycles, now, pc, bid, ask, fair, deviation,
          buy_level, sell_step, warnings, warnings_cycle, requests, settings_thresholds,
          faults, path_file, tmp_file, attempt, http_log, sleeps, outcome>>

storeVars == <<path_file, tmp_file>>
requestVars == <<attempt, http_log, sleeps, outcome>>

----------------------------------------------------------------------------
(* Bounds of the model *)

MaxCycles == 4
MaxFaults == 1
\* the number of writes json.dump makes of a document's text
DocChunks == 2
\* the number of events added in a run of the event log
MaxEvents == 12

----------------------------------------------------------------------------
(* Configuration: config.py.  The values are the defaults, in the units    *)
(* above, but for two that the environment sets: LOOP_SECONDS=600 (a tick  *)
(* every 10 minutes) and BALANCE_REFRESH_EVERY=3.                          *)

tick_size == 2
step_size == 2
min_notional == 2000000
order_ttl_minutes == 10
balance_refresh_every == 3
loop_minutes == 10
buy_price_ticks_offset == 0
sell_price_ticks_offset == 0

BuyLevels == <<"L4", "L3", "L2", "L1">>
SellSteps == <<"S1", "S2", "S3">>
BuyLevelSet == {"L1", "L2", "L3", "L4"}
SellStepSet == {"S1", "S2", "S3"}

\* buy and sell thresholds in tenths of a percent, allocation fractions in tenths
LevelThresholds ==
    [ buy  |-> [L1 |-> -12, L2 |-> -16, L3 |-> -20, L4 |-> -25],
      sell |-> [S1 |-> -8, S2 |-> -3, S3 |-> 0],
      buy_allocations |-> [L1 |-> 2, L2 |-> 3, L3 |-> 3, L4 |-> 2] ]

\* risk.py: emergency thresholds, tenths of a percent
EnterDeviation == -45
EnterDrop24h == -20
ExitDeviation == -20
ExitDrop24h == -10

\* state.py: capacity of the event ring, and the history window in minutes
EventCapacity == 10
HistoryWindow == 1440

\* runner.py:150: 1000.0 USDT seeded in a dry run that starts with none
DryRunSeedUsdt == 400000000

NoPrice == 0
NoDeviation == [num |-> 0, den |-> 0]

----------------------------------------------------------------------------
(* Rational percentages *)

Pct(n, d) == [num |-> n, den |-> d]
\* p <= t/10, p >= t/10, p > t/10 for a threshold t in tenths of a percent
PctLE(p, t) == p.num * 10 <= t * p.den
PctGE(p, t) == p.num * 10 >= t * p.den
PctGT(p, t) == p.num * 10 > t * p.den

----------------------------------------------------------------------------
(* exchange/mexc.py: rounding primitives *)

floor_to_step(value, step) ==
    IF step <= 0 THEN value ELSE (value \div step) * step

floor_to_tick(value, tick) ==
    IF tick <= 0 THEN value ELSE (value \div tick) * tick

----------------------------------------------------------------------------
(* state.py *)

DefaultState ==
    [ balances          |-> [XAUT |-> 0, USDT |-> 0],
      filled_buy_levels |-> [L1 |-> FALSE, L2 |-> FALSE, L3 |-> FALSE, L4 |-> FALSE],
      filled_sell_steps |-> [S1 |-> FALSE, S2 |-> FALSE, S3 |-> FALSE],
      active_order      |-> <<>>,     \* <<>> is None, <<ao>> is an ActiveOrder
      emergency_mode    |-> [enabled |-> FALSE, reason |-> <<>>],
      xauusd_history    |-> <<>>,
      events            |-> <<>> ]

ActiveOrder(oid, side, level, price, qty, ts) ==
    [ order_id |-> oid, side |-> side, level |-> level, price |-> price,
      qty |-> qty, created_ts |-> ts, status |-> "NEW", filled_qty |-> 0 ]

\* mutant of add_event: the list of events grows without a limit
add_event_Unbounded(st, event) == [st EXCEPT !.events = Append(st.events, event)]

\* deque(self.events, maxlen=10).append(event)
add_event(st, event) ==
    LET all == Append(st.events, event)
        n == Len(all)
    IN  [st EXCEPT !.events =
            IF n <= EventCapacity THEN all
            ELSE SubSeq(all, n - EventCapacity + 1, n)]

prune_history(st, t) ==
    LET cutoff == t - HistoryWindow
    IN  [st EXCEPT !.xauusd_history =
            SelectSeq(st.xauusd_history, LAMBDA p : p.ts >= cutoff)]

----------------------------------------------------------------------------
(* state.py: the persisted document and the StateStore *)

\* datetime.isoformat(): the text of a time, by calendar day, hour and minute
isoformat(t) ==
    [day |-> t \div 1440, hour |-> (t % 1440) \div 60, minute |-> t % 60]

\* mutant of to_datetime: the time of day is dropped when a time is parsed
to_datetime_DateOnly(v) == v.day * 1440

\* state.py:59-62, for the text of a time (datetime.fromisoformat)
to_datetime(v) == v.day * 1440 + v.hour * 60 + v.minute

\* state.py:84-89: asdict(state) with the times turned into text; None is <<>>
state_to_dict(st) ==
    [ balances          |-> st.balances,
      filled_buy_levels |-> st.filled_buy_levels,
      filled_sell_steps |-> st.filled_sell_steps,
      active_order      |->
            IF st.active_order = <<>> THEN <<>>
            ELSE <<[st.active_order[1] EXCEPT
                        !.created_ts = isoformat(st.active_order[1].created_ts)]>>,
      emergency_mode    |-> st.emergency_mode,
      xauusd_history    |->
            [i \in 1..Len(st.xauusd_history) |->
                [ts |-> isoformat(st.xauusd_history[i].ts),
                 price |-> st.xauusd_history[i].price]],
      events            |-> st.events ]

\* dict.get(key, default)
Get(d, key, default) == IF key \in DOMAIN d THEN d[key] ELSE default

\* state.py:68-70: ActiveOrder(**active) with created_ts parsed; the fields
\* with a default (state.py:19-20) may be absent
active_order_from_dict(active) ==
    [ order_id   |-> active.order_id,
      side       |-> active.side,
      level      |-> active.level,
      price      |-> active.price,
      qty        |-> active.qty,
      created_ts |-> to_datetime(active.created_ts),
      status     |-> Get(active, "status", "NEW"),
      filled_qty |-> Get(active, "filled_qty", 0) ]

\* state.py:72: EmergencyState(**data.get("emergency_mode", {}))
emergency_from_dict(em) ==
    [ enabled |-> Get(em, "enabled", DefaultState.emergency_mode.enabled),
      reason  |-> Get(em, "reason", DefaultState.emergency_mode.reason) ]

\* state.py:65-81: a top-level key that is absent gets its default; the
\* value of a key that is present is taken as it is
state_from_dict(data) ==
    LET active  == Get(data, "active_order", <<>>)
        history == Get(data, "xauusd_history", <<>>)
    IN  [ balances          |-> Get(data, "balances", DefaultState.balances),
          filled_buy_levels |-> Get(data, "filled_buy_levels", DefaultState.filled_buy_levels),
          filled_sell_steps |-> Get(data, "filled_sell_steps", DefaultState.filled_sell_steps),
          active_order      |->
                IF active = <<>> THEN <<>> ELSE <<active_order_from_dict(active[1])>>,
          emergency_mode    |-> emergency_from_dict(Get(data, "emergency_mode", << >>)),
          xauusd_history    |->
                [i \in 1..Len(history) |->
                    [ts |-> to_datetime(history[i].ts), price |-> history[i].price]],
          events            |-> Get(data, "events", <<>>) ]

\* A file: absent, or the first `written` of the DocChunks writes of the text
\* of the document `data`.
MissingFile == [exists |-> FALSE, written |-> 0, data |-> <<>>]
OpenedFile == [exists |-> TRUE, written |-> 0, data |-> <<>>]
FileOf(doc, n) == [exists |-> TRUE, written |-> n, data |-> <<doc>>]
Complete(file) == file.exists /\ file.written = DocChunks

\* state.py:103-108 as one step: the temporary file is written in full and
\* replaces the state file
save(st) == FileOf(state_to_dict(st), DocChunks)

\* state.py:96-101: the state a file loads as (json.load raises on a text
\* that is not complete)
Loadable(file) == ~file.exists \/ Complete(file)
load(file) ==
    IF ~file.exists THEN DefaultState ELSE state_from_dict(file.data[1])

----------------------------------------------------------------------------
(* strategy/dislocation.py *)

compute_deviation_pct(xaut_bid, xaut_ask, f) ==
    Pct((xaut_bid + xaut_ask - 2 * f) * 100, 2 * f)

RECURSIVE ScanBuy(_, _, _, _)
ScanBuy(i, deviation_pct, thresholds, filled) ==
    IF i > Len(BuyLevels) THEN "None"
    ELSE LET level == BuyLevels[i]
         IN  IF (~filled[level]) /\ PctLE(deviation_pct, thresholds[level])
             THEN level
             ELSE ScanBuy(i + 1, deviation_pct, thresholds, filled)

\* mutant of next_buy_level: the ladder is scanned from the shallowest level
RECURSIVE ScanBuyAscending(_, _, _, _)
ScanBuyAscending(i, deviation_pct, thresholds, filled) ==
    IF i < 1 THEN "None"
    ELSE LET level == BuyLevels[i]
         IN  IF (~filled[level]) /\ PctLE(deviation_pct, thresholds[level])
             THEN level
             ELSE ScanBuyAscending(i - 1, deviation_pct, thresholds, filled)

next_buy_level_ShallowestFirst(deviation_pct, thresholds, filled) ==
    ScanBuyAscending(Len(BuyLevels), deviation_pct, thresholds, filled)

next_buy_level(deviation_pct, thresholds, filled) ==
    ScanBuy(1, deviation_pct, thresholds, filled)

RECURSIVE ScanSell(_, _, _, _)
ScanSell(i, deviation_pct, thresholds, filled) ==
    IF i > Len(SellSteps) THEN "None"
    ELSE LET step == SellSteps[i]
         IN  IF (~filled[step]) /\ PctGE(deviation_pct, thresholds[step])
             THEN step
             ELSE ScanSell(i + 1, deviation_pct, thresholds, filled)

\* mutant of next_sell_step: the steps are scanned from the deepest
RECURSIVE ScanSellDescending(_, _, _, _)
ScanSellDescending(i, deviation_pct, thresholds, filled) ==
    IF i < 1 THEN "None"
    ELSE LET step == SellSteps[i]
         IN  IF (~filled[step]) /\ PctGE(deviation_pct, thresholds[step])
             THEN step
             ELSE ScanSellDescending(i - 1, deviation_pct, thresholds, filled)

next_sell_step_DeepestFirst(deviation_pct, thresholds, filled) ==
    ScanSellDescending(Len(SellSteps), deviation_pct, thresholds, filled)

next_sell_step(deviation_pct, thresholds, filled) ==
    ScanSell(1, deviation_pct, thresholds, filled)

\* the step's fraction of the base balance, before flooring to step size
sell_qty(step, xaut_balance) ==
    CASE step = "S1" -> xaut_balance \div 4
      [] step = "S2" -> xaut_balance \div 2
      [] step = "S3" -> xaut_balance

----------------------------------------------------------------------------
(* strategy/risk.py *)

xauusd_24h_change_pct(st) ==
    LET h == st.xauusd_history
    IN  IF Len(h) < 2 THEN Pct(0, 1)
        ELSE LET first == h[1].price
                 last == h[Len(h)].price
             IN  IF first = 0 THEN Pct(0, 1)
                 ELSE Pct((last - first) * 100, first)

update_xau_history(st, xauusd_price, t) ==
    prune_history(
        [st EXCEPT !.xauusd_history = Append(@, [ts |-> t, price |-> xauusd_price])],
        t)

EnterCondition(deviation_pct, drop_24h) ==
    PctLE(deviation_pct, EnterDeviation) \/ PctLE(drop_24h, EnterDrop24h)

\* mutant of ExitCondition: the exit test is the negation of the entry test
ExitCondition_NoHysteresis(deviation_pct, drop_24h) ==
    ~EnterCondition(deviation_pct, drop_24h)

ExitCondition(deviation_pct, drop_24h) ==
    PctGT(deviation_pct, ExitDeviation) /\ PctGT(drop_24h, ExitDrop24h)

update_emergency_mode(st, deviation_pct) ==
    LET drop_24h == xauusd_24h_change_pct(st)
        enter == EnterCondition(deviation_pct, drop_24h)
        exit_ok == ExitCondition(deviation_pct, drop_24h)
        reason == (IF PctLE(deviation_pct, EnterDeviation) THEN <<"Deviation">> ELSE <<>>)
                  \o (IF PctLE(drop_24h, EnterDrop24h) THEN <<"XAUUSD 24h">> ELSE <<>>)
    IN  IF (~st.emergency_mode.enabled) /\ enter
        THEN add_event([st EXCEPT !.emergency_mode = [enabled |-> TRUE, reason |-> reason]],
                       "EMERGENCY entered")
        ELSE IF st.emergency_mode.enabled /\ exit_ok
        THEN add_event([st EXCEPT !.emergency_mode = [enabled |-> FALSE, reason |-> <<>>]],
                       "EMERGENCY cleared")
        ELSE st

----------------------------------------------------------------------------
(* runner.py: fills and the order lifecycle *)

refresh_balances_live(st, bal) ==
    [st EXCEPT !.balances = [XAUT |-> bal.XAUT, USDT |-> bal.USDT]]

IsBuyLabel(level) == level \in BuyLevelSet      \* level.startswith("L")
IsSellLabel(level) == level \in SellStepSet     \* level.startswith("S")

MarkBuyFilled(st, level) ==
    IF IsBuyLabel(level) THEN [st EXCEPT !.filled_buy_levels[level] = TRUE] ELSE st

\* mutant of MarkSellFilled: a filled sell step re-arms the buy ladder
MarkSellFilled_RearmsBuys(st, level) ==
    IF IsSellLabel(level)
    THEN [st EXCEPT !.filled_sell_steps[level] = TRUE,
                    !.filled_buy_levels = [l \in {"L1", "L2", "L3", "L4"} |-> FALSE]]
    ELSE st

MarkSellFilled(st, level) ==
    IF IsSellLabel(level) THEN [st EXCEPT !.filled_sell_steps[level] = TRUE] ELSE st

\* mutant of apply_simulated_fill: a sell credits the quantity, not its value
apply_simulated_fill_SellCreditsQty(st, side, qty, price, level) ==
    IF side = "BUY"
    THEN add_event(
            MarkBuyFilled(
                [st EXCEPT !.balances.USDT = @ - qty * price,
                           !.balances.XAUT = @ + qty],
                level),
            "SIMULATED BUY")
    ELSE add_event(
            MarkSellFilled(
                [st EXCEPT !.balances.XAUT = @ - qty,
                           !.balances.USDT = @ + qty],
                level),
            "SIMULATED SELL")

apply_simulated_fill(st, side, qty, price, level) ==
    IF side = "BUY"
    THEN add_event(
            MarkBuyFilled(
                [st EXCEPT !.balances.USDT = @ - qty * price,
                           !.balances.XAUT = @ + qty],
                level),
            "SIMULATED BUY")
    ELSE add_event(
            MarkSellFilled(
                [st EXCEPT !.balances.XAUT = @ - qty,
                           !.balances.USDT = @ + qty * price],
                level),
            "SIMULATED SELL")

\* What a call returns to the loop: the state it leaves, the exception it
\* raises ("none", "auth" for MexcAuthError, "error" for any other) and the
\* signed requests it sent.
Outcome(st, raised, sent) == [state |-> st, raised |-> raised, sent |-> sent]

TerminalStatuses == {"CANCELED", "REJECTED", "EXPIRED"}

\* mutant of TtlExpired: the order is cancelled already at the TTL
TtlExpired_AtTtl(ao, t, ttl_minutes) == t >= ao.created_ts + ttl_minutes

\* runner.py:91-92: datetime.utcnow() > ao.created_ts + timedelta(minutes=ttl_minutes)
TtlExpired(ao, t, ttl_minutes) == t > ao.created_ts + ttl_minutes

\* mutant of MarkFilled: the level of a filled order is left unmarked
MarkFilled_Forgotten(st, level) == st

\* runner.py:73-76
MarkFilled(st, level) ==
    IF IsBuyLabel(level) THEN MarkBuyFilled(st, level)
    ELSE IF IsSellLabel(level) THEN MarkSellFilled(st, level)
    ELSE st

\* runner.py:72-80: status FILLED.  The level is marked before the balance
\* refresh is called; the event and the clearing of the slot come after it,
\* so an exception of the refresh leaves the order in the slot.
FilledBranch(st1, ao, resp) ==
    LET st2 == MarkFilled(st1, ao.level)
    IN  IF resp.refresh_call # "ok"
        THEN Outcome(st2, resp.refresh_call, <<"status", "account">>)
        ELSE Outcome(
                [add_event(refresh_balances_live(st2, resp.bal), "Order FILLED")
                    EXCEPT !.active_order = <<>>],
                "none", <<"status", "account">>)

\* mutant of PartialBranch: a partial fill is taken for the end of the order
PartialBranch_ClearsSlot(st1) ==
    Outcome([add_event(st1, "Order partially filled") EXCEPT !.active_order = <<>>],
            "none", <<"status">>)

\* runner.py:82-84: status PARTIALLY_FILLED
PartialBranch(st1) ==
    Outcome(add_event(st1, "Order partially filled"), "none", <<"status">>)

\* mutant of TerminalBranch: an order that ended unfilled consumes its level
TerminalBranch_MarksFilled(st1, ao) ==
    Outcome([add_event(MarkFilled(st1, ao.level), "Order ended") EXCEPT !.active_order = <<>>],
            "none", <<"status">>)

\* runner.py:86-89: status CANCELED, REJECTED or EXPIRED
TerminalBranch(st1, ao) ==
    Outcome([add_event(st1, "Order ended") EXCEPT !.active_order = <<>>],
            "none", <<"status">>)

\* runner.py:93-95: the cancel request, then the event and the clearing of
\* the slot; an exception of cancel_order leaves the order in the slot.
TtlBranch(st1, resp) ==
    IF resp.cancel_call # "ok"
    THEN Outcome(st1, resp.cancel_call, <<"status", "cancel">>)
    ELSE Outcome([add_event(st1, "Order canceled by TTL") EXCEPT !.active_order = <<>>],
                 "none", <<"status", "cancel">>)

\* mutant of handle_active_order: outside live trading an order left in the
\* slot is dropped
handle_active_order_DropsOffline(st, md, t, ttl_minutes, resp) ==
    IF st.active_order = <<>>
    THEN Outcome(st, "none", <<>>)
    ELSE IF md # "LIVE"
    THEN Outcome([st EXCEPT !.active_order = <<>>], "none", <<>>)
    ELSE IF resp.status_call # "ok"
    THEN Outcome(st, resp.status_call, <<"status">>)
    ELSE
    LET ao == [st.active_order[1] EXCEPT !.status = resp.status,
                                         !.filled_qty = resp.filled_qty]
        st1 == [st EXCEPT !.active_order = <<ao>>]
    IN  IF resp.status = "FILLED" THEN FilledBranch(st1, ao, resp)
        ELSE IF resp.status = "PARTIALLY_FILLED" THEN PartialBranch(st1)
        ELSE IF resp.status \in TerminalStatuses THEN TerminalBranch(st1, ao)
        ELSE IF resp.status = "NEW" /\ TtlExpired(ao, t, ttl_minutes)
        THEN TtlBranch(st1, resp)
        ELSE Outcome(st1, "none", <<"status">>)

\* resp: what the exchange answers to the calls handle_active_order makes:
\*   status_call, refresh_call, cancel_call : "ok" | "auth" | "error"
\*   status, filled_qty : the order status answered;  bal : the balances answered
handle_active_order(st, md, t, ttl_minutes, resp) ==
    IF st.active_order = <<>> \/ md # "LIVE"
    THEN Outcome(st, "none", <<>>)
    ELSE IF resp.status_call # "ok"
    THEN Outcome(st, resp.status_call, <<"status">>)
    ELSE
    LET ao == [st.active_order[1] EXCEPT !.status = resp.status,
                                         !.filled_qty = resp.filled_qty]
        st1 == [st EXCEPT !.active_order = <<ao>>]
    IN  IF resp.status = "FILLED" THEN FilledBranch(st1, ao, resp)
        ELSE IF resp.status = "PARTIALLY_FILLED" THEN PartialBranch(st1)
        ELSE IF resp.status \in TerminalStatuses THEN TerminalBranch(st1, ao)
        ELSE IF resp.status = "NEW" /\ TtlExpired(ao, t, ttl_minutes)
        THEN TtlBranch(st1, resp)
        ELSE Outcome(st1, "none", <<"status">>)

\* runner.py:238-245: the handlers at the tick boundary
on_exception(st, raised) ==
    IF raised = "auth" THEN add_event(st, "MEXC auth error")
    ELSE add_event(st, "Loop error")

\* mutant of mode_after: the auth error is logged but trading stays live
mode_after_StaysLive(md, raised) == md

mode_after(md, raised) == IF raised = "auth" THEN "DRY_RUN" ELSE md

----------------------------------------------------------------------------
(* runner.py:185-236: the decision step *)

BuyLimitPrice(b) == floor_to_tick(b + buy_price_ticks_offset * tick_size, tick_size)
SellLimitPrice(a) == floor_to_tick(a - sell_price_ticks_offset * tick_size, tick_size)

\* floor_to_step(usdt_free * allocation / limit_price, step_size)
BuyQty(usdt_free, allocation, limit_price) ==
    floor_to_step((usdt_free * allocation) \div (10 * limit_price), step_size)

SellQty(step, xaut_balance) == floor_to_step(sell_qty(step, xaut_balance), step_size)

\* mutant of BelowMinNotional: only the quantity is tested
BelowMinNotional_QtyOnly(limit_price, qty) == qty <= 0

BelowMinNotional(limit_price, qty) == limit_price * qty < min_notional \/ qty <= 0

PlaceRequest(side) == IF side = "BUY" THEN "place BUY" ELSE "place SELL"

Decision(st, raised, sent, bl, ss, warned) ==
    [state |-> st, raised |-> raised, sent |-> sent,
     buy_level |-> bl, sell_step |-> ss, warned |-> warned]

\* mutant of act: a simulated order is also recorded as the active order
act_SimulatedStaysActive(st, md, t, side, level, limit_price, qty, oid, place_call, bl, ss) ==
    IF BelowMinNotional(limit_price, qty)
    THEN Decision(st, "none", <<>>, bl, ss, <<"skipped: below min_notional">>)
    ELSE IF md = "DRY_RUN"
    THEN Decision([apply_simulated_fill(st, side, qty, limit_price, level)
                        EXCEPT !.active_order =
                            <<ActiveOrder(oid, side, level, limit_price, qty, t)>>],
                  "none", <<>>, bl, ss, <<>>)
    ELSE IF place_call # "ok"
    THEN Decision(st, place_call, <<PlaceRequest(side)>>, bl, ss, <<>>)
    ELSE Decision(
            add_event([st EXCEPT !.active_order =
                            <<ActiveOrder(oid, side, level, limit_price, qty, t)>>],
                      "placed"),
            "none", <<PlaceRequest(side)>>, bl, ss, <<>>)

\* the order of one side, simulated or placed (runner.py:195-211, 217-233)
act(st, md, t, side, level, limit_price, qty, oid, place_call, bl, ss) ==
    IF BelowMinNotional(limit_price, qty)
    THEN Decision(st, "none", <<>>, bl, ss, <<"skipped: below min_notional">>)
    ELSE IF md = "DRY_RUN"
    THEN Decision(apply_simulated_fill(st, side, qty, limit_price, level),
                  "none", <<>>, bl, ss, <<>>)
    ELSE IF place_call # "ok"
    THEN Decision(st, place_call, <<PlaceRequest(side)>>, bl, ss, <<>>)
    ELSE Decision(
            add_event([st EXCEPT !.active_order =
                            <<ActiveOrder(oid, side, level, limit_price, qty, t)>>],
                      "placed"),
            "none", <<PlaceRequest(side)>>, bl, ss, <<>>)

\* mutants of MayDecide: the decision guard without one of its two conditions
MayDecide_IgnoresActiveOrder(st) == ~st.emergency_mode.enabled
MayDecide_IgnoresEmergency(st) == st.active_order = <<>>

MayDecide(st) == st.active_order = <<>> /\ ~st.emergency_mode.enabled

SellConsidered(bl, ss, st) == bl = "None" /\ ss # "None" /\ st.balances.XAUT > 0

\* mutant of decide: a buy that is discarded lets the sell side act
decide_DiscardedBuyFallsThrough(st, md, t, b, a, dev, th, oid, place_call) ==
    IF MayDecide(st)
    THEN LET bl == next_buy_level(dev, th.buy, st.filled_buy_levels)
             ss == next_sell_step(dev, th.sell, st.filled_sell_steps)
             buy_price == BuyLimitPrice(b)
             buy_qty == IF bl # "None"
                        THEN BuyQty(st.balances.USDT, th.buy_allocations[bl], buy_price)
                        ELSE 0
         IN  IF bl # "None" /\ ~BelowMinNotional(buy_price, buy_qty)
             THEN act(st, md, t, "BUY", bl, buy_price, buy_qty, oid, place_call, bl, ss)
             ELSE IF ss # "None" /\ st.balances.XAUT > 0
             THEN LET limit_price == SellLimitPrice(a)
                      qty == SellQty(ss, st.balances.XAUT)
                  IN  act(st, md, t, "SELL", ss, limit_price, qty, oid, place_call, bl, ss)
             ELSE Decision(st, "none", <<>>, bl, ss, <<>>)
    ELSE IF st.emergency_mode.enabled
    THEN Decision(st, "none", <<>>, "None", "None", <<"EMERGENCY">>)
    ELSE Decision(st, "none", <<>>, "None", "None", <<>>)

decide(st, md, t, b, a, dev, th, oid, place_call) ==
    IF MayDecide(st)
    THEN LET bl == next_buy_level(dev, th.buy, st.filled_buy_levels)
             ss == next_sell_step(dev, th.sell, st.filled_sell_steps)
         IN  IF bl # "None"
             THEN LET limit_price == BuyLimitPrice(b)
                      qty == BuyQty(st.balances.USDT, th.buy_allocations[bl], limit_price)
                  IN  act(st, md, t, "BUY", bl, limit_price, qty, oid, place_call, bl, ss)
             ELSE IF SellConsidered(bl, ss, st)
             THEN LET limit_price == SellLimitPrice(a)
                      qty == SellQty(ss, st.balances.XAUT)
                  IN  act(st, md, t, "SELL", ss, limit_price, qty, oid, place_call, bl, ss)
             ELSE Decision(st, "none", <<>>, bl, ss, <<>>)
    ELSE IF st.emergency_mode.enabled
    THEN Decision(st, "none", <<>>, "None", "None", <<"EMERGENCY">>)
    ELSE Decision(st, "none", <<>>, "None", "None", <<>>)

----------------------------------------------------------------------------
(* The environment: what the exchange, the feed and the clock may answer *)

CallOutcomes == {"ok", "auth", "error"}
Failures == {"auth", "error"}

\* (bid, ask) of the book ticker; the mid prices are 5.0% and 2.6% below,
\* and equal to, the fair price of 2000 (10.00 USDT)
Books ==
    { [bid |-> 1899, ask |-> 1901], [bid |-> 1947, ask |-> 1949],
      [bid |-> 1999, ask |-> 2001] }

FairPrices == {2000}

\* balances the exchange may report: 20 USDT and 1 XAUT, or 1000 USDT and no XAUT
ExchangeBalances ==
    { [USDT |-> 8000000, XAUT |-> 2000], [USDT |-> DryRunSeedUsdt, XAUT |-> 0] }

\* what state_store.load() may return at startup: the default state, a state
\* with 20 USDT and 1 XAUT, a state whose history holds one point of
\* 23 h 35 min ago, 2.01% above the fair price, and a state saved while a
\* buy order placed 5 minutes ago was open
LoadedOrder == ActiveOrder(0, "BUY", "L4", 1946, 40, -5)

LoadedStates ==
    { DefaultState,
      [DefaultState EXCEPT !.balances = [XAUT |-> 2000, USDT |-> 8000000]],
      [DefaultState EXCEPT !.xauusd_history = <<[ts |-> -1415, price |-> 2041]>>],
      [DefaultState EXCEPT !.balances = [XAUT |-> 2000, USDT |-> 8000000],
                           !.active_order = <<LoadedOrder>>] }

\* minutes a tick may take from its start to the status query of its order
Latency == {0, 1}

OrderStatuses ==
    {"NEW", "PARTIALLY_FILLED", "FILLED", "CANCELED", "REJECTED", "EXPIRED", "UNKNOWN"}

NoResponse ==
    [status_call |-> "ok", status |-> "NEW", filled_qty |-> 0,
     refresh_call |-> "ok", bal |-> [USDT |-> 0, XAUT |-> 0], cancel_call |-> "ok"]

\* the answers that make a difference to handle_active_order for order ao
ReconcileResponses(ao) ==
    { [NoResponse EXCEPT !.status_call = f] : f \in Failures }
    \cup { [NoResponse EXCEPT !.status = s] : s \in OrderStatuses \ {"FILLED", "PARTIALLY_FILLED"} }
    \cup { [NoResponse EXCEPT !.cancel_call = f] : f \in Failures }
    \cup { [NoResponse EXCEPT !.status = "PARTIALLY_FILLED", !.filled_qty = step_size] }
    \cup { [NoResponse EXCEPT !.status = "FILLED", !.filled_qty = ao.qty, !.bal = b] :
                b \in ExchangeBalances }
    \cup { [NoResponse EXCEPT !.status = "FILLED", !.filled_qty = ao.qty, !.refresh_call = f] :
                f \in Failures }

----------------------------------------------------------------------------
(* runner.py:98-153: construction *)

Init ==
    /\ state \in LoadedStates
    /\ mode \in {"DRY_RUN", "LIVE"}
    \* a state with an open order is started in a dry run only
    /\ state.active_order # <<>> => mode = "DRY_RUN"
    /\ cycles = 0
    /\ now = 0
    /\ pc = "start"
    /\ bid = NoPrice /\ ask = NoPrice /\ fair = NoPrice
    /\ deviation = NoDeviation
    /\ buy_level = "None" /\ sell_step = "None"
    /\ warnings = <<>>
    /\ warnings_cycle = <<>>
    /\ requests = <<>>
    /\ settings_thresholds = LevelThresholds
    /\ faults = 0
    /\ path_file \in {f \in {MissingFile, save(state)} : load(f) = state}
    /\ tmp_file = MissingFile
    /\ attempt = 0 /\ http_log = <<>> /\ sleeps = <<>> /\ outcome = "idle"

\* runner.py:149-150
SeedDryRun(st, md) ==
    IF st.balances.USDT = 0 /\ md = "DRY_RUN"
    THEN [st EXCEPT !.balances.USDT = DryRunSeedUsdt]
    ELSE st

\* runner.py:120-150.  have_keys: the API keys are configured; auth: the
\* outcome of auth_test and the balance refresh; bal: the balances answered.
Startup ==
    /\ pc = "start"
    /\ UNCHANGED <<cycles, now, bid, ask, fair, deviation, buy_level, sell_step,
                   warnings_cycle, settings_thresholds, faults, storeVars, requestVars>>
    /\ \/ /\ mode = "DRY_RUN"
          /\ state' = SeedDryRun(state, mode)
          /\ pc' = "fetch"
          /\ UNCHANGED <<mode, warnings, requests>>
       \/ /\ mode = "LIVE"                       \* keys missing
          /\ mode' = "DRY_RUN"
          /\ warnings' = <<"LIVE disabled: missing MEXC keys">>
          /\ state' = SeedDryRun(state, "DRY_RUN")
          /\ pc' = "fetch"
          /\ UNCHANGED requests
       \/ /\ mode = "LIVE"                       \* MexcAuthError
          /\ mode' = "DRY_RUN"
          /\ warnings' = <<"LIVE disabled auth error">>
          /\ state' = SeedDryRun(add_event(state, "MEXC auth error"), "DRY_RUN")
          /\ requests' = <<"account">>
          /\ pc' = "fetch"
       \/ /\ mode = "LIVE"                       \* authenticated
          /\ \E bal \in ExchangeBalances :
                state' = SeedDryRun(refresh_balances_live(state, bal), mode)
          /\ requests' = <<"account", "account">>
          /\ pc' = "fetch"
          /\ UNCHANGED <<mode, warnings>>
       \/ /\ mode = "LIVE"                       \* any other exception ends the process
          /\ requests' = <<"account">>
          /\ pc' = "crashed"
          /\ UNCHANGED <<state, mode, warnings>>

----------------------------------------------------------------------------
(* runner.py:156-249: one tick of the loop, in its steps *)

BeginTick ==
    /\ pc = "fetch"
    /\ cycles < MaxCycles
    /\ cycles' = cycles + 1
    /\ buy_level' = "None" /\ sell_step' = "None"
    /\ UNCHANGED <<warnings, settings_thresholds, requestVars>>

\* mutant of Raise: the handler goes on to the next tick without the save
Raise_SkipsSave(st, raised, sent) ==
    /\ state' = on_exception(st, raised)
    /\ mode' = mode_after(mode, raised)
    /\ warnings_cycle' = Append(warnings_cycle,
                                IF raised = "auth" THEN "Trading blocked" ELSE "Loop error")
    /\ requests' = requests \o sent
    /\ faults' = faults + 1
    /\ pc' = "fetch"

\* the exception handlers at the tick boundary (runner.py:238-245)
Raise(st, raised, sent) ==
    /\ state' = on_exception(st, raised)
    /\ mode' = mode_after(mode, raised)
    /\ warnings_cycle' = Append(warnings_cycle,
                                IF raised = "auth" THEN "Trading blocked" ELSE "Loop error")
    /\ requests' = requests \o sent
    /\ faults' = faults + 1
    /\ pc' = "persist"

\* runner.py:162: get_book_ticker raises
FetchFails ==
    /\ BeginTick
    /\ faults < MaxFaults
    /\ faults' = faults + 1
    /\ bid' = NoPrice /\ ask' = NoPrice /\ fair' = NoPrice /\ deviation' = NoDeviation
    /\ state' = on_exception(state, "error")
    /\ warnings_cycle' = Append(warnings, "Loop error")
    /\ requests' = <<>>
    /\ pc' = "persist"
    /\ UNCHANGED <<mode, now, storeVars>>

\* mutant of PriceUnavailable: the reason is logged but the tick goes on
\* without a reference price instead of ending
PriceUnavailable_GoesOn ==
    /\ BeginTick
    /\ faults < MaxFaults
    /\ faults' = faults + 1
    /\ \E b \in Books : bid' = b.bid /\ ask' = b.ask
    /\ fair' = NoPrice /\ deviation' = NoDeviation
    /\ state' = add_event(state, "XAUUSD unavailable")
    /\ warnings_cycle' = Append(warnings, "XAUUSD unavailable")
    /\ requests' = <<>>
    /\ pc' = "reconcile"
    /\ UNCHANGED <<mode, now, storeVars>>

\* runner.py:164-172: the reference price is unavailable; the tick saves, waits and ends
PriceUnavailable ==
    /\ BeginTick
    /\ faults < MaxFaults
    /\ faults' = faults + 1
    /\ \E b \in Books : bid' = b.bid /\ ask' = b.ask
    /\ fair' = NoPrice /\ deviation' = NoDeviation
    /\ state' = add_event(state, "XAUUSD unavailable")
    /\ path_file' = save(state')
    /\ tmp_file' = MissingFile
    /\ warnings_cycle' = Append(warnings, "XAUUSD unavailable")
    /\ requests' = <<>>
    /\ now' = now + loop_minutes
    /\ pc' = "fetch"
    /\ UNCHANGED mode

\* mutant of risk_step: the risk is evaluated before the price of the tick is
\* added to the history
risk_step_RiskBeforeHistory(st, f, t, dev) ==
    update_xau_history(update_emergency_mode(st, dev), f, t)

\* runner.py:176-178: the history update, then the risk evaluation
risk_step(st, f, t, dev) ==
    update_emergency_mode(update_xau_history(st, f, t), dev)

\* runner.py:174-181: history update, risk evaluation, periodic balance refresh
EvaluateRisk ==
    /\ BeginTick
    /\ \E b \in Books, f \in FairPrices :
        LET dev == compute_deviation_pct(b.bid, b.ask, f)
            st1 == risk_step(state, f, now, dev)
        IN  /\ bid' = b.bid /\ ask' = b.ask /\ fair' = f /\ deviation' = dev
            /\ IF mode = "LIVE" /\ cycles' % balance_refresh_every = 0
               THEN \/ \E bal \in ExchangeBalances :
                        /\ state' = refresh_balances_live(st1, bal)
                        /\ requests' = <<"account">>
                        /\ warnings_cycle' = warnings
                        /\ pc' = "reconcile"
                        /\ UNCHANGED <<mode, faults>>
                    \/ \E f2 \in Failures :
                        /\ faults < MaxFaults
                        /\ faults' = faults + 1
                        /\ state' = on_exception(st1, f2)
                        /\ mode' = mode_after(mode, f2)
                        /\ warnings_cycle' = Append(warnings,
                                IF f2 = "auth" THEN "Trading blocked" ELSE "Loop error")
                        /\ requests' = <<"account">>
                        /\ pc' = "persist"
               ELSE /\ state' = st1
                    /\ requests' = <<>>
                    /\ warnings_cycle' = warnings
                    /\ pc' = "reconcile"
                    /\ UNCHANGED <<mode, faults>>
    /\ UNCHANGED <<now, storeVars>>

\* runner.py:183
Idle(st, md) == st.active_order = <<>> \/ md # "LIVE"

ReconcileOrder ==
    /\ pc = "reconcile"
    /\ \E resp \in (IF Idle(state, mode) THEN {NoResponse}
                    ELSE ReconcileResponses(state.active_order[1])),
          lat \in (IF Idle(state, mode) THEN {0} ELSE Latency) :
        LET r == handle_active_order(state, mode, now + lat, order_ttl_minutes, resp)
        IN  /\ now' = now + lat
            /\ IF r.raised = "none"
               THEN /\ state' = r.state
                    /\ requests' = requests \o r.sent
                    /\ pc' = "decide"
                    /\ UNCHANGED <<mode, warnings_cycle, faults>>
               ELSE /\ faults < MaxFaults
                    /\ Raise(r.state, r.raised, r.sent)
    /\ UNCHANGED <<cycles, bid, ask, fair, deviation, buy_level, sell_step, warnings,
                   settings_thresholds, storeVars, requestVars>>

\* runner.py:185-236
DecideAndAct ==
    /\ pc = "decide"
    /\ \E place_call \in (IF mode = "LIVE" THEN CallOutcomes ELSE {"ok"}) :
        LET r == decide(state, mode, now, bid, ask, deviation, settings_thresholds, cycles,
                        place_call)
        IN  /\ buy_level' = r.buy_level
            /\ sell_step' = r.sell_step
            /\ IF r.raised = "none"
               THEN /\ state' = r.state
                    /\ requests' = requests \o r.sent
                    /\ warnings_cycle' = warnings_cycle \o r.warned
                    /\ pc' = "persist"
                    /\ UNCHANGED <<mode, faults>>
               ELSE /\ faults < MaxFaults
                    /\ Raise(r.state, r.raised, r.sent)
    /\ UNCHANGED <<cycles, now, bid, ask, fair, deviation, warnings,
                   settings_thresholds, storeVars, requestVars>>

\* runner.py:247-249: save, render, sleep
Persist ==
    /\ pc = "persist"
    /\ path_file' = save(state)
    /\ tmp_file' = MissingFile
    /\ now' = now + loop_minutes
    /\ pc' = "fetch"
    /\ UNCHANGED <<state, mode, cycles, bid, ask, fair, deviation, buy_level, sell_step,
                   warnings, warnings_cycle, requests, settings_thresholds, faults,
                   requestVars>>

Next ==
    \/ Startup
    \/ FetchFails
    \/ PriceUnavailable
    \/ EvaluateRisk
    \/ ReconcileOrder
    \/ DecideAndAct
    \/ Persist

Spec == Init /\ [][Next]_vars

----------------------------------------------------------------------------
(* The decision engine and the risk monitor on their own: the inputs are   *)
(* drawn from bounded sets and each action applies one function once.      *)

\* a ladder whose sell thresholds overlap the buy thresholds
OverlappingThresholds ==
    [LevelThresholds EXCEPT !.sell = [S1 |-> -30, S2 |-> -20, S3 |-> 0]]

\* mid prices from 5.0% below to 0.5% above the fair price of 2000
EngineMids == {1900, 1910, 1911, 1940, 1948, 1950, 1951, 1960, 1961, 1968, 1976,
               1977, 1984, 1994, 2000, 2010}

\* price histories: 24h changes of 0, -2.05%, -2.0%, -1.95%, -1.0%, -0.95%,
\* and a zero base
EngineHistories ==
    { <<>>, <<[ts |-> 0, price |-> 2000]>> }
    \cup { <<[ts |-> 0, price |-> 2000], [ts |-> 10, price |-> p]>> :
                p \in {1959, 1960, 1961, 1980, 1981, 2000} }
    \cup { <<[ts |-> 0, price |-> 0], [ts |-> 10, price |-> 2000]>> }

\* the mid prices the decision step is run at
DecideMids == {1900, 1948, 1960, 1976, 1984, 2000}

EngineBalances ==
    { [USDT |-> 0, XAUT |-> 0], [USDT |-> 8000000, XAUT |-> 8000],
      [USDT |-> DryRunSeedUsdt, XAUT |-> 0], [USDT |-> 0, XAUT |-> 5] }

EngineOrder == ActiveOrder(1, "BUY", "L4", 1946, 40, 0)

EngineInit ==
    /\ pc \in {"select", "risk", "decide"}
    /\ \E fb \in [BuyLevelSet -> BOOLEAN], fs \in [SellStepSet -> BOOLEAN],
          em \in BOOLEAN, h \in EngineHistories, bal \in EngineBalances,
          ao \in {<<>>, <<EngineOrder>>} :
        /\ pc = "select" => (~em /\ h = <<>> /\ bal = DefaultState.balances /\ ao = <<>>)
        /\ pc = "risk" => (bal = DefaultState.balances /\ ao = <<>>
                           /\ \A l \in BuyLevelSet : ~fb[l]
                           /\ \A x \in SellStepSet : ~fs[x])
        /\ pc = "decide" => h = <<>>
        /\ state = [ balances          |-> bal,
                     filled_buy_levels |-> [l \in {"L1", "L2", "L3", "L4"} |-> fb[l]],
                     filled_sell_steps |-> [x \in {"S1", "S2", "S3"} |-> fs[x]],
                     active_order      |-> ao,
                     emergency_mode    |-> [enabled |-> em,
                                            reason |-> IF em THEN <<"Deviation">> ELSE <<>>],
                     xauusd_history    |-> h,
                     events            |-> <<>> ]
    /\ mode \in {"DRY_RUN", "LIVE"}
    /\ pc # "decide" => mode = "DRY_RUN"
    /\ settings_thresholds \in {LevelThresholds, OverlappingThresholds}
    /\ pc = "risk" => settings_thresholds = LevelThresholds
    /\ \E m \in EngineMids :
        /\ pc = "decide" => m \in DecideMids
        /\ bid = m - 1 /\ ask = m + 1 /\ fair = 2000
        /\ deviation = compute_deviation_pct(m - 1, m + 1, 2000)
    /\ cycles = 1
    /\ now = 20
    /\ buy_level = "None" /\ sell_step = "None"
    /\ warnings = <<>>
    /\ warnings_cycle = <<>>
    /\ requests = <<>>
    /\ faults = 0
    /\ path_file = MissingFile /\ tmp_file = MissingFile
    /\ attempt = 0 /\ http_log = <<>> /\ sleeps = <<>> /\ outcome = "idle"

CallNextBuyLevel ==
    /\ pc = "select"
    /\ buy_level' = next_buy_level(deviation, settings_thresholds.buy, state.filled_buy_levels)
    /\ pc' = "buy_done"
    /\ UNCHANGED <<state, mode, cycles, now, bid, ask, fair, deviation, sell_step,
                   warnings, warnings_cycle, requests, settings_thresholds, faults,
                   storeVars, requestVars>>

CallNextSellStep ==
    /\ pc = "select"
    /\ sell_step' = next_sell_step(deviation, settings_thresholds.sell, state.filled_sell_steps)
    /\ pc' = "sell_done"
    /\ UNCHANGED <<state, mode, cycles, now, bid, ask, fair, deviation, buy_level,
                   warnings, warnings_cycle, requests, settings_thresholds, faults,
                   storeVars, requestVars>>

CallUpdateEmergencyMode ==
    /\ pc = "risk"
    /\ state' = update_emergency_mode(state, deviation)
    /\ pc' = "risk_done"
    /\ UNCHANGED <<mode, cycles, now, bid, ask, fair, deviation, buy_level, sell_step,
                   warnings, warnings_cycle, requests, settings_thresholds, faults,
                   storeVars, requestVars>>

EngineNext ==
    \/ CallNextBuyLevel
    \/ CallNextSellStep
    \/ CallUpdateEmergencyMode
    \/ DecideAndAct

SpecEngine == EngineInit /\ [][EngineNext]_vars

----------------------------------------------------------------------------
(* exchange/mexc.py:76-107: one signed request, with its retries *)

max_retries == 2

\* what an attempt may get: an HTTP status, or no response at all (the
\* client raises a timeout or a network error).  With no response the request
\* either never reached the exchange ("timeout") or was received and
\* processed there and its response lost on the way back ("lost response").
Answers == {"200", "401", "403", "429", "500", "timeout", "lost response"}

Unanswered == {"timeout", "lost response"}

AuthStatuses == {"401", "403"}

\* the signed calls of MexcPrivate (mexc.py:108-154)
SignedCalls == {"account", "status", "cancel", "place BUY", "place SELL"}

\* mutant of on_request_exception: the last attempt is retried as well
on_request_exception_OneMore(status, n) ==
    IF status \in AuthStatuses THEN "auth"
    ELSE IF n > max_retries THEN "raised"
    ELSE "retry"

\* mexc.py:99-106: the handler of an exception other than MexcAuthError that
\* carries status code `status` (an unanswered attempt carries none), in
\* attempt n
on_request_exception(status, n) ==
    IF status \in AuthStatuses THEN "auth"
    ELSE IF n >= max_retries THEN "raised"
    ELSE "retry"

\* mutant of attempt_result: a 401/403 answer is handled like any other
\* failed attempt
attempt_result_AuthRetried(answer, n) ==
    IF answer \in Unanswered THEN on_request_exception(answer, n)
    ELSE IF answer = "429" /\ n < max_retries THEN "retry"
    ELSE IF answer # "200" THEN on_request_exception("500", n)
    ELSE "returned"

\* mexc.py:88-98: what attempt n does with the answer it gets: "returned",
\* "auth" (MexcAuthError raised to the caller), "raised" (the last error
\* re-raised to the caller) or "retry" (sleep and go round the loop)
attempt_result(answer, n) ==
    IF answer \in Unanswered THEN on_request_exception(answer, n)
    ELSE IF answer \in AuthStatuses THEN "auth"
    ELSE IF answer = "429" /\ n < max_retries THEN "retry"
    ELSE IF answer # "200" THEN on_request_exception(answer, n)
    ELSE "returned"

RequestInit ==
    /\ \E call \in SignedCalls : requests = <<call>>
    /\ attempt = 0 /\ http_log = <<>> /\ sleeps = <<>> /\ outcome = "pending"
    /\ pc = "request"
    /\ state = DefaultState
    /\ mode = "LIVE"
    /\ cycles = 1
    /\ now = 0
    /\ bid = NoPrice /\ ask = NoPrice /\ fair = NoPrice
    /\ deviation = NoDeviation
    /\ buy_level = "None" /\ sell_step = "None"
    /\ warnings = <<>>
    /\ warnings_cycle = <<>>
    /\ settings_thresholds = LevelThresholds
    /\ faults = 0
    /\ path_file = MissingFile /\ tmp_file = MissingFile

\* one pass of the loop body: the request is sent, answered, and the answer
\* handled
SendAttempt ==
    /\ pc = "request"
    /\ outcome = "pending"
    /\ attempt <= max_retries
    /\ \E answer \in Answers :
        LET r == attempt_result(answer, attempt)
        IN  /\ http_log' = Append(http_log, answer)
            /\ IF r = "retry"
               THEN /\ sleeps' = Append(sleeps, attempt + 1)
                    /\ attempt' = attempt + 1
                    /\ UNCHANGED outcome
               ELSE /\ outcome' = r
                    /\ UNCHANGED <<sleeps, attempt>>
    /\ UNCHANGED <<state, mode, cycles, now, pc, bid, ask, fair, deviation, buy_level,
                   sell_step, warnings, warnings_cycle, requests, settings_thresholds,
                   faults, storeVars>>

RequestNext == SendAttempt

SpecRequest == RequestInit /\ [][RequestNext]_vars

----------------------------------------------------------------------------
(* state.py:92-108: a save in its steps, a crash of the process at any of   *)
(* them, and the load of the next start                                     *)

StoreOrders ==
    { ActiveOrder(1, "BUY", "L4", 1946, 40, 0), ActiveOrder(3, "SELL", "S1", 2000, 500, 1515) }

\* the states that are saved
StoreStates ==
    { [ balances          |-> bal,
        filled_buy_levels |-> [DefaultState.filled_buy_levels EXCEPT !.L4 = l4],
        filled_sell_steps |-> [DefaultState.filled_sell_steps EXCEPT !.S1 = s1],
        active_order      |-> ao,
        emergency_mode    |-> em,
        xauusd_history    |-> h,
        events            |-> ev ] :
        bal \in {DefaultState.balances, [XAUT |-> 2000, USDT |-> 8000000]},
        l4 \in BOOLEAN, s1 \in BOOLEAN,
        ao \in {<<>>} \cup {<<[o EXCEPT !.status = st, !.filled_qty = fq]>> :
                                o \in StoreOrders,
                                st \in {"NEW", "PARTIALLY_FILLED"}, fq \in {0, 2}},
        em \in {DefaultState.emergency_mode, [enabled |-> TRUE, reason |-> <<"Deviation">>]},
        h \in {<<>>, <<[ts |-> -1415, price |-> 2041]>>,
               <<[ts |-> 59, price |-> 2000], [ts |-> 1500, price |-> 1999]>>},
        ev \in {<<>>, <<"placed", "Loop error">>} }

\* the snapshots the state file may hold before the save
PreviousStates ==
    { DefaultState,
      [DefaultState EXCEPT !.balances = [XAUT |-> 2000, USDT |-> 8000000],
                           !.active_order = <<ActiveOrder(1, "BUY", "L4", 1946, 40, 0)>>] }

\* the keys of d outside `keys` removed
Restrict(d, keys) == [k \in DOMAIN d \cap keys |-> d[k]]

\* documents of another version of the schema: top-level keys absent (also
\* all of them), and entries absent inside the maps of one key
OlderDocuments ==
    LET d == state_to_dict(
                [DefaultState EXCEPT !.balances = [XAUT |-> 2000, USDT |-> 8000000],
                                     !.filled_buy_levels.L4 = TRUE,
                                     !.emergency_mode = [enabled |-> TRUE,
                                                         reason |-> <<"Deviation">>]])
    IN  { Restrict(d, {"balances", "filled_buy_levels", "filled_sell_steps"}),
          Restrict(d, {"emergency_mode", "events"}),
          Restrict(d, {}),
          [d EXCEPT !.emergency_mode = [enabled |-> TRUE]],
          [d EXCEPT !.filled_buy_levels = [L4 |-> TRUE]],
          [d EXCEPT !.balances = [USDT |-> 8000000]] }

StoreInit ==
    /\ state \in StoreStates
    /\ path_file \in {MissingFile} \cup {save(s) : s \in PreviousStates}
                        \cup {FileOf(d, DocChunks) : d \in OlderDocuments}
    /\ tmp_file \in {MissingFile, FileOf(state_to_dict(DefaultState), 1)}
    /\ pc = "save"
    /\ mode = "DRY_RUN"
    /\ cycles = 1
    /\ now = 1520
    /\ bid = NoPrice /\ ask = NoPrice /\ fair = NoPrice
    /\ deviation = NoDeviation
    /\ buy_level = "None" /\ sell_step = "None"
    /\ warnings = <<>>
    /\ warnings_cycle = <<>>
    /\ requests = <<>>
    /\ settings_thresholds = LevelThresholds
    /\ faults = 0
    /\ attempt = 0 /\ http_log = <<>> /\ sleeps = <<>> /\ outcome = "idle"

StoreFrame ==
    UNCHANGED <<mode, cycles, now, bid, ask, fair, deviation, buy_level, sell_step,
                warnings, warnings_cycle, requests, settings_thresholds, faults,
                requestVars>>

\* state.py:105-106: tmp.open("w") creates or truncates the temporary file
SaveOpen ==
    /\ pc = "save"
    /\ tmp_file' = OpenedFile
    /\ pc' = "dump"
    /\ UNCHANGED <<state, path_file>>
    /\ StoreFrame

\* mutant of SaveWrite: the text is written to the state file itself
SaveWrite_InPlace ==
    /\ pc = "dump"
    /\ tmp_file.written < DocChunks
    /\ tmp_file' = FileOf(state_to_dict(state), tmp_file.written + 1)
    /\ path_file' = tmp_file'
    /\ UNCHANGED <<state, pc>>
    /\ StoreFrame

\* state.py:107: json.dump writes the text of the document piece by piece
SaveWrite ==
    /\ pc = "dump"
    /\ tmp_file.written < DocChunks
    /\ tmp_file' = FileOf(state_to_dict(state), tmp_file.written + 1)
    /\ UNCHANGED <<state, path_file, pc>>
    /\ StoreFrame

\* state.py:106-107: the end of the with block closes the temporary file
SaveClose ==
    /\ pc = "dump"
    /\ tmp_file.written = DocChunks
    /\ pc' = "replace"
    /\ UNCHANGED <<state, path_file, tmp_file>>
    /\ StoreFrame

\* state.py:108: tmp.replace(self.path), one atomic rename
SaveReplace ==
    /\ pc = "replace"
    /\ path_file' = tmp_file
    /\ tmp_file' = MissingFile
    /\ pc' = "saved"
    /\ UNCHANGED state
    /\ StoreFrame

\* the process dies before, during or after the save; the files stay
Crash ==
    /\ pc \in {"save", "dump", "replace", "saved"}
    /\ pc' = "down"
    /\ UNCHANGED <<state, path_file, tmp_file>>
    /\ StoreFrame

\* state.py:96-101 at the next start (runner.py:113-114)
Load ==
    /\ pc \in {"saved", "down"}
    /\ state' = IF Loadable(path_file) THEN load(path_file) ELSE state
    /\ pc' = IF Loadable(path_file) THEN "loaded" ELSE "load_failed"
    /\ UNCHANGED <<path_file, tmp_file>>
    /\ StoreFrame

StoreNext ==
    \/ SaveOpen
    \/ SaveWrite
    \/ SaveClose
    \/ SaveReplace
    \/ Crash
    \/ Load

SpecStore == StoreInit /\ [][StoreNext]_vars

----------------------------------------------------------------------------
(* state.py:49-52: the event log on its own.  Every call of add_event adds  *)
(* an event stamped with the number of the call; cycles counts the calls.   *)

EventKinds == {"placed", "Loop error"}

EventsInit ==
    /\ state = DefaultState
    /\ cycles = 0
    /\ pc = "log"
    /\ mode = "DRY_RUN"
    /\ now = 0
    /\ bid = NoPrice /\ ask = NoPrice /\ fair = NoPrice
    /\ deviation = NoDeviation
    /\ buy_level = "None" /\ sell_step = "None"
    /\ warnings = <<>>
    /\ warnings_cycle = <<>>
    /\ requests = <<>>
    /\ settings_thresholds = LevelThresholds
    /\ faults = 0
    /\ path_file = MissingFile /\ tmp_file = MissingFile
    /\ attempt = 0 /\ http_log = <<>> /\ sleeps = <<>> /\ outcome = "idle"

CallAddEvent ==
    /\ pc = "log"
    /\ cycles < MaxEvents
    /\ cycles' = cycles + 1
    /\ \E kind \in EventKinds :
            state' = add_event(state, [stamp |-> cycles', kind |-> kind])
    /\ UNCHANGED <<mode, now, pc, bid, ask, fair, deviation, buy_level, sell_step,
                   warnings, warnings_cycle, requests, settings_thresholds, faults,
                   storeVars, requestVars>>

EventsNext == CallAddEvent

SpecEvents == EventsInit /\ [][EventsNext]_vars

----------------------------------------------------------------------------
(* The decision step in the machine's arithmetic.  A Python float is a      *)
(* binary floating-point number: a significand of a fixed width times a     *)
(* power of two, and every operation returns the float nearest to the exact *)
(* result, ties to the even significand.  The floats of this section keep   *)
(* that rule with a significand of Precision bits; [m |-> m, e |-> e] is    *)
(* m * 2^e, with 2^(Precision-1) <= |m| < 2^Precision unless it is zero.     *)

Precision == 11
\* the ticks of a simulated run in this arithmetic
MaxTrades == 6

RECURSIVE Pow2(_)
Pow2(n) == IF n = 0 THEN 1 ELSE 2 * Pow2(n - 1)

Abs(n) == IF n < 0 THEN -n ELSE n

Zero == [m |-> 0, e |-> 0]

\* the bounds of a significand that is not zero
SignificandMin == Pow2(Precision - 1)
SignificandTop == Pow2(Precision)

\* the float nearest to (num / den) * 2^e, for num >= 0 and den > 0
RECURSIVE Nearest(_, _, _)
Nearest(num, den, e) ==
    IF num = 0 THEN Zero
    ELSE IF num >= SignificandTop * den THEN Nearest(num, 2 * den, e + 1)
    ELSE IF num < SignificandMin * den THEN Nearest(2 * num, den, e - 1)
    ELSE LET q == num \div den
             r == num % den
             m == IF 2 * r > den \/ (2 * r = den /\ q % 2 = 1) THEN q + 1 ELSE q
         IN  IF m = SignificandTop
             THEN [m |-> SignificandMin, e |-> e + 1]
             ELSE [m |-> m, e |-> e]

Signed(negative, x) == IF negative THEN [x EXCEPT !.m = -x.m] ELSE x

\* the float of a decimal literal num / den, and of an int
Literal(num, den) == Nearest(num, den, 0)
FromInt(n) == Signed(n < 0, Nearest(Abs(n), 1, 0))

FMul(a, b) ==
    Signed((a.m < 0) # (b.m < 0), Nearest(Abs(a.m) * Abs(b.m), 1, a.e + b.e))

FDiv(a, b) ==
    Signed((a.m < 0) # (b.m < 0), Nearest(Abs(a.m), Abs(b.m), a.e - b.e))

\* a + b: an addend below half a unit in the last place of the other is lost
FAdd(a, b) ==
    IF a.m = 0 THEN b
    ELSE IF b.m = 0 THEN a
    ELSE IF a.e - b.e > Precision + 1 THEN a
    ELSE IF b.e - a.e > Precision + 1 THEN b
    ELSE LET low == IF a.e < b.e THEN a.e ELSE b.e
             sum == a.m * Pow2(a.e - low) + b.m * Pow2(b.e - low)
         IN  Signed(sum < 0, Nearest(Abs(sum), 1, low))

FSub(a, b) == FAdd(a, Signed(TRUE, b))

Less(a, b) == FSub(a, b).m < 0

\* math.floor of a float that is not negative: an int
Floor(a) ==
    IF a.e >= 0 THEN a.m * Pow2(a.e)
    ELSE IF -a.e > Precision THEN 0
    ELSE a.m \div Pow2(-a.e)

\* config.py:49-51 and 30-32, dislocation.py:42,44, runner.py:150 as floats
TickSizeFloat == Literal(1, 100)
StepSizeFloat == Literal(1, 1000)
MinNotionalFloat == FromInt(5)
QuarterFloat == Literal(25, 100)
HalfFloat == Literal(50, 100)
DryRunSeedFloat == FromInt(1000)
AllocationFloat(level) == Literal(LevelThresholds.buy_allocations[level], 10)

\* math.floor(value / step) * step
FloorToStepFloat(value, step) ==
    IF ~Less(Zero, step) THEN value
    ELSE FMul(FromInt(Floor(FDiv(value, step))), step)

FloorToTickFloat(value, tick) ==
    IF ~Less(Zero, tick) THEN value
    ELSE FMul(FromInt(Floor(FDiv(value, tick))), tick)

SellQtyFloat(step, xaut_balance) ==
    CASE step = "S1" -> FMul(xaut_balance, QuarterFloat)
      [] step = "S2" -> FMul(xaut_balance, HalfFloat)
      [] step = "S3" -> xaut_balance

ApplySimulatedFillFloat(st, side, qty, price, level) ==
    IF side = "BUY"
    THEN add_event(
            MarkBuyFilled(
                [st EXCEPT !.balances.USDT = FSub(@, FMul(qty, price)),
                           !.balances.XAUT = FAdd(@, qty)],
                level),
            "SIMULATED BUY")
    ELSE add_event(
            MarkSellFilled(
                [st EXCEPT !.balances.XAUT = FSub(@, qty),
                           !.balances.USDT = FAdd(@, FMul(qty, price))],
                level),
            "SIMULATED SELL")

\* runner.py:189-194 and 213-216: the order the tick computes
BuyOrderFloat(st, level, xaut_bid) ==
    LET limit_price == FloorToTickFloat(xaut_bid, TickSizeFloat)
        buy_usdt == FMul(st.balances.USDT, AllocationFloat(level))
    IN  [ limit_price |-> limit_price,
          budget      |-> buy_usdt,
          qty         |-> FloorToStepFloat(FDiv(buy_usdt, limit_price), StepSizeFloat) ]

SellOrderFloat(st, step, xaut_ask) ==
    [ limit_price |-> FloorToTickFloat(xaut_ask, TickSizeFloat),
      budget      |-> st.balances.XAUT,
      qty         |-> FloorToStepFloat(SellQtyFloat(step, st.balances.XAUT), StepSizeFloat) ]

BelowMinNotionalFloat(order) ==
    Less(FMul(order.limit_price, order.qty), MinNotionalFloat) \/ ~Less(Zero, order.qty)

\* runner.py:185-221 in a dry run with no active order and no emergency
DecideFloat(st, bl, ss, xaut_bid, xaut_ask) ==
    IF bl # "None"
    THEN LET order == BuyOrderFloat(st, bl, xaut_bid)
         IN  IF BelowMinNotionalFloat(order) THEN st
             ELSE ApplySimulatedFillFloat(st, "BUY", order.qty, order.limit_price, bl)
    ELSE IF ss # "None" /\ Less(Zero, st.balances.XAUT)
    THEN LET order == SellOrderFloat(st, ss, xaut_ask)
         IN  IF BelowMinNotionalFloat(order) THEN st
             ELSE ApplySimulatedFillFloat(st, "SELL", order.qty, order.limit_price, ss)
    ELSE st

\* quotes in cents and deviations of the ticks of a run
FloatQuotes == {Literal(c, 100) : c \in {199000, 204800, 208000}}
FloatDeviations == {Pct(-13, 10), Pct(-3, 1), Pct(-5, 10), Pct(1, 1)}

FloatInit ==
    /\ state = [DefaultState EXCEPT !.balances = [XAUT |-> Zero, USDT |-> DryRunSeedFloat]]
    /\ mode = "DRY_RUN"
    /\ cycles = 0
    /\ pc = "trade"
    /\ now = 0
    /\ bid = NoPrice /\ ask = NoPrice /\ fair = NoPrice
    /\ deviation = NoDeviation
    /\ buy_level = "None" /\ sell_step = "None"
    /\ warnings = <<>>
    /\ warnings_cycle = <<>>
    /\ requests = <<>>
    /\ settings_thresholds = LevelThresholds
    /\ faults = 0
    /\ path_file = MissingFile /\ tmp_file = MissingFile
    /\ attempt = 0 /\ http_log = <<>> /\ sleeps = <<>> /\ outcome = "idle"

FloatTick ==
    /\ pc = "trade"
    /\ cycles < MaxTrades
    /\ cycles' = cycles + 1
    /\ \E quote \in FloatQuotes, dev \in FloatDeviations :
        /\ bid' = quote /\ ask' = quote
        /\ deviation' = dev
        /\ buy_level' = next_buy_level(dev, settings_thresholds.buy, state.filled_buy_levels)
        /\ sell_step' = next_sell_step(dev, settings_thresholds.sell, state.filled_sell_steps)
        /\ state' = DecideFloat(state, buy_level', sell_step', quote, quote)
    /\ UNCHANGED <<mode, now, pc, fair, warnings, warnings_cycle, requests,
                   settings_thresholds, faults, storeVars, requestVars>>

FloatNext == FloatTick

SpecFloat == FloatInit /\ [][FloatNext]_vars

----------------------------------------------------------------------------
(* Properties of the control loop *)

Slot == state.active_order
LastEvent(st) == IF st.events = <<>> THEN "" ELSE st.events[Len(st.events)]
Sent(req) == \E i \in 1..Len(requests) : requests[i] = req
Placements(reqs) ==
    Cardinality({i \in 1..Len(reqs) : reqs[i] \in {"place BUY", "place SELL"}})

\* C1: at most one Active Order exists in every state; a placement request is
\* sent only by the decision step and only when the slot is empty at that
\* step (after reconciliation); while an order is pending the decision step
\* evaluates no level and leaves the slot alone.
C1_SingleActiveOrder ==
    /\ Len(state.active_order) <= 1
    /\ [][ /\ Len(state'.active_order) <= 1
           /\ Placements(requests') > Placements(requests)
                => (pc = "decide" /\ state.active_order = <<>>)
           /\ (pc = "decide" /\ state.active_order # <<>>)
                => /\ buy_level' = "None" /\ sell_step' = "None"
                   /\ state' = state
                   /\ requests' = requests ]_vars

\* a placement was sent in this tick and its order occupies the slot
C1_Witness ==
    /\ pc = "persist"
    /\ Sent("place BUY")
    /\ Slot # <<>>
    /\ Slot[1].level = buy_level

\* C2: while emergency mode is enabled after risk evaluation, the decision
\* step places no order and applies no fill (the state and the requests are
\* left as they are); reconciliation does not change the emergency state,
\* and it still queries the status of an active order in live mode.
C2_EmergencySuppressesPlacement ==
    [][ /\ (pc = "decide" /\ state.emergency_mode.enabled)
            => (state' = state /\ requests' = requests /\ pc' = "persist")
        /\ pc \in {"reconcile", "decide"}
            => state'.emergency_mode = state.emergency_mode
        /\ (pc = "reconcile" /\ state.emergency_mode.enabled
                /\ state.active_order # <<>> /\ mode = "LIVE")
            => (Len(requests') > Len(requests)
                /\ requests'[Len(requests) + 1] = "status") ]_vars

\* in an emergency tick reconciliation has resolved the active order by a
\* TTL cancel, and the decision step has run without acting
C2_Witness ==
    /\ pc = "persist"
    /\ state.emergency_mode.enabled
    /\ Sent("status") /\ Sent("cancel")
    /\ LastEvent(state) = "Order canceled by TTL"
    /\ Slot = <<>>
    /\ warnings_cycle = <<"EMERGENCY">>

\* C4: once the filled flag of a buy level or a sell step is true it is true
\* in every later state.
C4_FilledMonotonic ==
    [][ /\ \A l \in BuyLevelSet :
            state.filled_buy_levels[l] => state'.filled_buy_levels[l]
        /\ \A x \in SellStepSet :
            state.filled_sell_steps[x] => state'.filled_sell_steps[x] ]_vars

\* a buy level and a sell step are filled, in a tick after the one that
\* filled the sell step
C4_Witness ==
    /\ pc = "persist"
    /\ state.filled_buy_levels["L4"]
    /\ state.filled_sell_steps["S1"]
    /\ state.filled_sell_steps["S2"]
    /\ LastEvent(state) # "SIMULATED SELL"

----------------------------------------------------------------------------
(* Properties of the risk monitor and the decision engine *)

\* C3: update_emergency_mode enters EMERGENCY from NORMAL exactly when
\* deviation <= -4.5 or the 24h change <= -2.0, leaves it exactly when
\* deviation > -2.0 and the 24h change > -1.0, and otherwise keeps the flag
\* (in EMERGENCY at -3.0 with no 24h trigger it stays enabled).
C3_EmergencyHysteresis ==
    [][ pc = "risk" =>
          LET d == deviation
              c == xauusd_24h_change_pct(state)
              was == state.emergency_mode.enabled
              is == state'.emergency_mode.enabled
              enter == d.num * 10 <= (-45) * d.den \/ c.num * 10 <= (-20) * c.den
              exit_ok == d.num * 10 > (-20) * d.den /\ c.num * 10 > (-10) * c.den
          IN  /\ ~was => (is <=> enter)
              /\ was => (is <=> ~exit_ok)
              /\ (was /\ d = Pct(-12000, 4000) /\ c.num = 0) => is ]_vars

\* in EMERGENCY at a deviation of -3.0% with no 24h change the flag has stayed
C3_Witness ==
    /\ pc = "risk_done"
    /\ deviation = Pct(-12000, 4000)
    /\ state.xauusd_history = <<>>
    /\ state.emergency_mode.enabled
    /\ state.events = <<>>

Breached(l) ==
    (~state.filled_buy_levels[l]) /\ PctLE(deviation, settings_thresholds.buy[l])
SellBreached(x) ==
    (~state.filled_sell_steps[x]) /\ PctGE(deviation, settings_thresholds.sell[x])
BuyRank == [L4 |-> 1, L3 |-> 2, L2 |-> 3, L1 |-> 4]
SellRank == [S1 |-> 1, S2 |-> 2, S3 |-> 3]

\* C6: next_buy_level returns the first level of L4, L3, L2, L1 that is
\* unfilled and breached (deviation <= threshold), and none if there is none;
\* with the default thresholds, nothing filled and a deviation of -2.6 it is L4.
C6_NextBuyLevelDeepestFirst ==
    pc = "buy_done" =>
        /\ \/ buy_level = "None" /\ \A l \in BuyLevelSet : ~Breached(l)
           \/ /\ buy_level \in BuyLevelSet
              /\ Breached(buy_level)
              /\ \A l \in BuyLevelSet : BuyRank[l] < BuyRank[buy_level] => ~Breached(l)
        /\ ( /\ settings_thresholds = LevelThresholds
             /\ deviation = Pct(-10400, 4000)
             /\ \A l \in BuyLevelSet : ~state.filled_buy_levels[l] )
            => buy_level = "L4"

\* L4 is filled, L3, L2 and L1 are unfilled and breached, and L3 is returned
C6_Witness ==
    /\ pc = "buy_done"
    /\ state.filled_buy_levels["L4"]
    /\ Breached("L3") /\ Breached("L2") /\ Breached("L1")
    /\ buy_level = "L3"

\* C7: next_sell_step returns the first step of S1, S2, S3 that is unfilled
\* and breached (deviation >= threshold), and none if there is none; with all
\* steps unfilled the shallowest breached step is chosen.
C7_NextSellStepShallowestFirst ==
    pc = "sell_done" =>
        \/ sell_step = "None" /\ \A x \in SellStepSet : ~SellBreached(x)
        \/ /\ sell_step \in SellStepSet
           /\ SellBreached(sell_step)
           /\ \A x \in SellStepSet : SellRank[x] < SellRank[sell_step] => ~SellBreached(x)

\* all three steps are unfilled and breached, and S1 is returned
C7_Witness ==
    /\ pc = "sell_done"
    /\ SellBreached("S1") /\ SellBreached("S2") /\ SellBreached("S3")
    /\ sell_step = "S1"

----------------------------------------------------------------------------
(* Properties of the decision step *)

BuyTriggered == \E l \in BuyLevelSet : Breached(l)
SellTriggered == \E x \in SellStepSet : SellBreached(x)

\* the side the decision step selects in the current state
DecisionSide ==
    IF state.active_order # <<>> \/ state.emergency_mode.enabled THEN "NONE"
    ELSE IF BuyTriggered THEN "BUY"
    ELSE IF SellTriggered /\ state.balances.XAUT > 0 THEN "SELL"
    ELSE "NONE"

\* the limit price and the quantity computed for that side
DecisionPrice == IF DecisionSide = "BUY" THEN BuyLimitPrice(bid) ELSE SellLimitPrice(ask)
DecisionQty ==
    IF DecisionSide = "BUY"
    THEN LET l == CHOOSE l \in BuyLevelSet :
                    Breached(l) /\ \A k \in BuyLevelSet : BuyRank[k] < BuyRank[l] => ~Breached(k)
         IN  BuyQty(state.balances.USDT, settings_thresholds.buy_allocations[l],
                    DecisionPrice)
    ELSE LET x == CHOOSE x \in SellStepSet :
                    SellBreached(x)
                    /\ \A k \in SellStepSet : SellRank[k] < SellRank[x] => ~SellBreached(k)
         IN  SellQty(x, state.balances.XAUT)

GuardDiscards ==
    DecisionPrice * DecisionQty < min_notional \/ DecisionQty <= 0

NewRequests == SubSeq(requests', Len(requests) + 1, Len(requests'))
NewEvent(e) == state'.events # state.events /\ LastEvent(state') = e

BuyActed ==
    \/ \E i \in 1..Len(NewRequests) : NewRequests[i] = "place BUY"
    \/ NewEvent("SIMULATED BUY")
    \/ state'.filled_buy_levels # state.filled_buy_levels
    \/ state'.balances.XAUT > state.balances.XAUT
    \/ state'.active_order # state.active_order /\ state'.active_order # <<>>
        /\ state'.active_order[1].side = "BUY"

SellActed ==
    \/ \E i \in 1..Len(NewRequests) : NewRequests[i] = "place SELL"
    \/ NewEvent("SIMULATED SELL")
    \/ state'.filled_sell_steps # state.filled_sell_steps
    \/ state'.balances.XAUT < state.balances.XAUT
    \/ state'.active_order # state.active_order /\ state'.active_order # <<>>
        /\ state'.active_order[1].side = "SELL"

\* C5: the decision step never acts on both sides, and when a buy level
\* triggers the sell side does not act, also when the buy is then discarded.
C5_OneSidePerTick ==
    [][ pc = "decide" =>
          /\ ~(BuyActed /\ SellActed)
          /\ BuyTriggered => ~SellActed ]_vars

\* a buy level and a sell step both trigger, the buy is discarded below the
\* minimum notional, XAUT is held, and nothing was sold
C5_Witness ==
    /\ pc = "persist"
    /\ buy_level # "None" /\ sell_step # "None"
    /\ state.balances.XAUT > 0
    /\ warnings_cycle = <<"skipped: below min_notional">>
    /\ requests = <<>>
    /\ state.events = <<>>

\* C8: when the computed limit_price * quantity is below the minimum notional
\* or the quantity is not positive, the decision step places no order,
\* applies no fill and leaves the whole state (balances, slot, filled flags)
\* as it is, with a warning.
C8_MinNotionalGuard ==
    [][ (pc = "decide" /\ DecisionSide # "NONE" /\ GuardDiscards) =>
          /\ state' = state
          /\ requests' = requests
          /\ warnings_cycle' = Append(warnings_cycle, "skipped: below min_notional")
          /\ pc' = "persist" ]_vars

\* a buy level was selected and discarded; it is still unfilled
C8_Witness ==
    /\ pc = "persist"
    /\ buy_level # "None"
    /\ ~state.filled_buy_levels[buy_level]
    /\ warnings_cycle = <<"skipped: below min_notional">>
    /\ Slot = <<>>
    /\ requests = <<>>

\* C9: in simulation mode the slot never becomes occupied, and a decision
\* that passes the guard is applied in the same step as a fill: the
\* level/step is marked filled, no request is sent and the slot is empty.
C9_SimulatedNeverActive ==
    [][ /\ (mode = "DRY_RUN" /\ state.active_order = <<>>) => state'.active_order = <<>>
        /\ (pc = "decide" /\ mode = "DRY_RUN" /\ DecisionSide # "NONE" /\ ~GuardDiscards) =>
              /\ state'.active_order = <<>>
              /\ requests' = requests
              /\ pc' = "persist"
              /\ DecisionSide = "BUY" =>
                    (NewEvent("SIMULATED BUY") /\ state'.filled_buy_levels[buy_level'])
              /\ DecisionSide = "SELL" =>
                    (NewEvent("SIMULATED SELL") /\ state'.filled_sell_steps[sell_step']) ]_vars

\* a simulated buy has been applied in this tick and the slot is empty
C9_Witness ==
    /\ pc = "persist"
    /\ mode = "DRY_RUN"
    /\ LastEvent(state) = "SIMULATED BUY"
    /\ buy_level # "None"
    /\ state.filled_buy_levels[buy_level]
    /\ Slot = <<>>

\* C10: a simulated fill of quantity q at the limit price p moves exactly
\* q * p: a BUY takes q * p from USDT and adds q to XAUT, a SELL takes q from
\* XAUT and adds q * p to USDT; exactly the flag of its level/step is set.
C10_SimulatedFillConserves ==
    [][ (pc = "decide" /\ mode = "DRY_RUN" /\ DecisionSide # "NONE" /\ ~GuardDiscards) =>
          LET q == DecisionQty
              p == DecisionPrice
          IN  /\ DOMAIN state'.balances = {"USDT", "XAUT"}
              /\ DecisionSide = "BUY" =>
                    /\ state'.balances.USDT = state.balances.USDT - q * p
                    /\ state'.balances.XAUT = state.balances.XAUT + q
                    /\ state'.filled_buy_levels =
                            [state.filled_buy_levels EXCEPT ![buy_level'] = TRUE]
                    /\ state'.filled_sell_steps = state.filled_sell_steps
              /\ DecisionSide = "SELL" =>
                    /\ state'.balances.XAUT = state.balances.XAUT - q
                    /\ state'.balances.USDT = state.balances.USDT + q * p
                    /\ state'.filled_sell_steps =
                            [state.filled_sell_steps EXCEPT ![sell_step'] = TRUE]
                    /\ state'.filled_buy_levels = state.filled_buy_levels ]_vars

\* a simulated sell has been applied in this tick
C10_Witness ==
    /\ pc = "persist"
    /\ mode = "DRY_RUN"
    /\ LastEvent(state) = "SIMULATED SELL"
    /\ sell_step = "S2"
    /\ state.filled_sell_steps["S2"]
    /\ state.balances.XAUT > 0

----------------------------------------------------------------------------
(* Properties of the order lifecycle (handle_active_order) *)

\* this step is the reconciliation of the active order in which the exchange
\* answered resp, lat minutes after the start of the tick
Reconciled(resp, lat) ==
    /\ pc = "reconcile"
    /\ ~Idle(state, mode)
    /\ now' = now + lat
    /\ LET r == handle_active_order(state, mode, now + lat, order_ttl_minutes, resp)
       IN  /\ requests' = requests \o r.sent
           /\ state' = IF r.raised = "none" THEN r.state
                       ELSE on_exception(r.state, r.raised)

\* this step is a reconciliation whose status query answered status s
Observes(s) ==
    /\ pc = "reconcile"
    /\ ~Idle(state, mode)
    /\ \E resp \in ReconcileResponses(Slot[1]), lat \in Latency :
            resp.status_call = "ok" /\ resp.status = s /\ Reconciled(resp, lat)

LevelFilled(st, level) ==
    IF level \in BuyLevelSet THEN st.filled_buy_levels[level]
    ELSE st.filled_sell_steps[level]

SameOrder(a, b) ==
    /\ a.order_id = b.order_id /\ a.side = b.side /\ a.level = b.level
    /\ a.price = b.price /\ a.qty = b.qty /\ a.created_ts = b.created_ts

FlagsUnchanged ==
    /\ state'.filled_buy_levels = state.filled_buy_levels
    /\ state'.filled_sell_steps = state.filled_sell_steps

\* C11 as stated: in live mode, whenever reconciliation observes FILLED, in
\* that tick the level/step is marked filled, the balances are refreshed from
\* the exchange, the fill is logged and the slot is cleared.
C11_FilledAlwaysClears ==
    [][Observes("FILLED") =>
            /\ LevelFilled(state', Slot[1].level)
            /\ NewRequests = <<"status", "account">>
            /\ state'.balances \in ExchangeBalances
            /\ NewEvent("Order FILLED")
            /\ state'.active_order = <<>>]_vars

\* C11 amended: in live mode, whenever reconciliation observes FILLED, the
\* level/step is marked filled and a balance refresh is requested in that
\* tick; if the refresh returns, the balances are the exchange's, the fill is
\* logged and the slot is cleared; if the refresh raises, the balances are
\* unchanged, the slot keeps the order (with status FILLED), no fill is logged
\* and the exception is logged at the tick boundary.
C11_FilledHandling ==
    [][Observes("FILLED") =>
            /\ LevelFilled(state', Slot[1].level)
            /\ NewRequests = <<"status", "account">>
            /\ \/ /\ pc' = "decide"
                  /\ state'.balances \in ExchangeBalances
                  /\ NewEvent("Order FILLED")
                  /\ state'.active_order = <<>>
               \/ /\ pc' = "persist"
                  /\ state'.balances = state.balances
                  /\ NewEvent("MEXC auth error") \/ NewEvent("Loop error")
                  /\ state'.active_order # <<>>
                  /\ SameOrder(state'.active_order[1], Slot[1])
                  /\ state'.active_order[1].status = "FILLED"]_vars

\* a live order was found FILLED and resolved: its level is marked, the slot
\* is empty and the tick goes on to the decision step
C11_Witness ==
    /\ pc = "decide"
    /\ mode = "LIVE"
    /\ LastEvent(state) = "Order FILLED"
    /\ Slot = <<>>
    /\ \E l \in BuyLevelSet : state.filled_buy_levels[l]
    /\ requests = <<"status", "account">>

\* C12: in live mode, when reconciliation observes PARTIALLY_FILLED it logs
\* the partial fill and does nothing else: the slot keeps the same order, no
\* cancel is sent whatever the order's age, no level/step is marked filled
\* and the balances are unchanged.
C12_PartialFillKeepsOrder ==
    [][Observes("PARTIALLY_FILLED") =>
            /\ NewEvent("Order partially filled")
            /\ state'.active_order # <<>>
            /\ SameOrder(state'.active_order[1], Slot[1])
            /\ NewRequests = <<"status">>
            /\ FlagsUnchanged
            /\ state'.balances = state.balances
            /\ state'.emergency_mode = state.emergency_mode
            /\ pc' = "decide"]_vars

\* an order older than the TTL was found partially filled and is still in
\* the slot, with nothing but the status query sent
C12_Witness ==
    /\ pc = "decide"
    /\ Slot # <<>>
    /\ Slot[1].status = "PARTIALLY_FILLED"
    /\ LastEvent(state) = "Order partially filled"
    /\ now > Slot[1].created_ts + order_ttl_minutes
    /\ requests = <<"status">>

\* C13: in live mode, when reconciliation observes CANCELED, REJECTED or
\* EXPIRED, the terminal status is logged, the slot is cleared and no
\* level/step is marked filled by that step.
C13_TerminalClearsSlot ==
    [][\A s \in TerminalStatuses :
          Observes(s) =>
            /\ NewEvent("Order ended")
            /\ state'.active_order = <<>>
            /\ FlagsUnchanged
            /\ state'.balances = state.balances
            /\ NewRequests = <<"status">>
            /\ pc' = "decide"]_vars

\* a live order ended unfilled: the slot is empty and no level is marked
C13_Witness ==
    /\ pc = "decide"
    /\ mode = "LIVE"
    /\ LastEvent(state) = "Order ended"
    /\ Slot = <<>>
    /\ \A l \in BuyLevelSet : ~state.filled_buy_levels[l]
    /\ \A x \in SellStepSet : ~state.filled_sell_steps[x]

\* the age of the order in the slot exceeds the TTL when its status is checked
AgedOut == now' > Slot[1].created_ts + order_ttl_minutes

CancelSent == \E i \in 1..Len(NewRequests) : NewRequests[i] = "cancel"

\* C14 as stated: a cancel is sent exactly when the status is NEW and the age
\* exceeds the TTL, and in such a tick the slot is cleared; otherwise no
\* cancel is sent and, with status NEW, the slot stays occupied.
C14_TtlCancelAlwaysClears ==
    [][(pc = "reconcile" /\ ~Idle(state, mode)) =>
            /\ CancelSent <=> (Observes("NEW") /\ AgedOut)
            /\ (Observes("NEW") /\ AgedOut) => state'.active_order = <<>>
            /\ (Observes("NEW") /\ ~AgedOut) => state'.active_order # <<>>]_vars

\* C14 amended: a cancel request is sent exactly when the queried status is
\* NEW and now - created_ts > ttl_minutes (strictly), never at or before the
\* TTL.  In such a tick, if the cancel request returns, the slot is cleared
\* and the cancellation logged in the same tick, without a confirmation of
\* the cancel; if the cancel request raises, the slot stays occupied by the
\* order and the exception is logged at the tick boundary.  With status NEW
\* and an age within the TTL no cancel is sent and the slot keeps the order.
C14_TtlCancel ==
    [][(pc = "reconcile" /\ ~Idle(state, mode)) =>
            /\ CancelSent <=> (Observes("NEW") /\ AgedOut)
            /\ (Observes("NEW") /\ AgedOut) =>
                    /\ NewRequests = <<"status", "cancel">>
                    /\ FlagsUnchanged
                    /\ \/ /\ pc' = "decide"
                          /\ NewEvent("Order canceled by TTL")
                          /\ state'.active_order = <<>>
                       \/ /\ pc' = "persist"
                          /\ NewEvent("MEXC auth error") \/ NewEvent("Loop error")
                          /\ state'.active_order # <<>>
                          /\ SameOrder(state'.active_order[1], Slot[1])
            /\ (Observes("NEW") /\ ~AgedOut) =>
                    /\ NewRequests = <<"status">>
                    /\ state'.active_order # <<>>
                    /\ SameOrder(state'.active_order[1], Slot[1])
                    /\ state'.events = state.events
                    /\ pc' = "decide"]_vars

\* an order found NEW one minute past its TTL was cancelled and the slot
\* cleared in the same tick
C14_Witness ==
    /\ pc = "decide"
    /\ mode = "LIVE"
    /\ LastEvent(state) = "Order canceled by TTL"
    /\ Slot = <<>>
    /\ requests = <<"status", "cancel">>
    /\ now = (cycles - 1) * loop_minutes + 1

\* an order found NEW exactly at its TTL stays in the slot
C14_AtTtl ==
    /\ pc = "decide"
    /\ Slot # <<>>
    /\ Slot[1].status = "NEW"
    /\ now = Slot[1].created_ts + order_ttl_minutes
    /\ requests = <<"status">>

\* C15: an unrecognized order status is a no-op (the slot keeps the order,
\* no cancel is sent, no level/step is marked filled) and it is logged.
C15_UnknownStatusLogged ==
    [][Observes("UNKNOWN") =>
            /\ state'.active_order # <<>>
            /\ SameOrder(state'.active_order[1], Slot[1])
            /\ ~CancelSent
            /\ FlagsUnchanged
            /\ \/ state'.events # state.events
               \/ warnings_cycle' # warnings_cycle]_vars

\* the part of C15 the code does: an unrecognized status leaves the order in
\* the slot, sends no cancel and marks nothing; nothing is logged
C15_UnknownStatusSilent ==
    [][Observes("UNKNOWN") =>
            /\ state'.active_order # <<>>
            /\ SameOrder(state'.active_order[1], Slot[1])
            /\ state'.active_order[1].status = "UNKNOWN"
            /\ ~CancelSent
            /\ FlagsUnchanged
            /\ state'.events = state.events
            /\ warnings_cycle' = warnings_cycle]_vars

----------------------------------------------------------------------------
(* Properties of the error handling at the tick boundary *)

HasEvent(st, e) == \E i \in 1..Len(st.events) : st.events[i] = e

\* C16: an AuthFailure raised during a tick is logged as an event and ends
\* live trading for the rest of the process: the mode is DRY_RUN from that
\* step on, the tick goes straight to persistence, and in DRY_RUN no signed
\* exchange call (status, place, cancel, account) is made any more.
C16_AuthFailureFallback ==
    [][/\ NewEvent("MEXC auth error") => mode' = "DRY_RUN"
       /\ (pc # "start" /\ mode = "LIVE" /\ mode' # "LIVE") =>
                (NewEvent("MEXC auth error") /\ pc' = "persist")
       /\ mode = "DRY_RUN" =>
                /\ mode' = "DRY_RUN"
                /\ requests' = requests \/ requests' = <<>>]_vars

\* live trading was ended by an AuthFailure in a tick, and a later tick
\* simulated a fill without any signed request
C16_Witness ==
    /\ mode = "DRY_RUN"
    /\ warnings = <<>>
    /\ HasEvent(state, "MEXC auth error")
    /\ LastEvent(state) \in {"SIMULATED BUY", "SIMULATED SELL"}
    /\ requests = <<>>
    /\ pc = "persist"

\* a step of a tick raised an exception (the unavailable reference price is
\* counted with the faults, but raises nothing)
Failed == pc # "start" /\ faults' > faults /\ ~NewEvent("XAUUSD unavailable")

\* C18: every tick saves the state before its end-of-tick wait, whether it
\* succeeded or failed: an exception raised in the fetch, reconciliation or
\* decision phase is caught, logged as an event and leads to the save of
\* that tick; the loop never ends by it, and at the start of every tick after
\* the first the state file holds the current state.
C18_EveryTickPersists ==
    /\ []((pc = "fetch" /\ cycles > 0) =>
                (path_file = save(state) /\ load(path_file) = state))
    /\ [](pc = "crashed" => cycles = 0)
    /\ [](pc \in {"reconcile", "decide", "persist"} => ENABLED Next)
    /\ [][/\ (pc # "start" /\ pc' = "fetch") => path_file' = save(state')
          /\ (pc # "start" /\ pc' # "fetch") => pc' \in {"reconcile", "decide", "persist"}
          /\ Failed => /\ pc' = "persist"
                       /\ NewEvent("Loop error") \/ NewEvent("MEXC auth error")]_vars

\* a tick that failed after sending a signed request has been saved, with
\* the logged error, and the loop is at the start of the next tick
C18_Witness ==
    /\ pc = "fetch"
    /\ cycles > 0 /\ cycles < MaxCycles
    /\ LastEvent(state) = "Loop error"
    /\ requests # <<>>
    /\ path_file = save(state)

----------------------------------------------------------------------------
(* Properties of the signed request *)

\* C17: in a signed request a 401/403 answer on any attempt raises
\* MexcAuthError to the caller at once: it is the last attempt sent, whatever
\* the number of retries left, and the call ends with the AuthFailure.
C17_AuthFailureNeverRetried ==
    /\ \A i \in 1..Len(http_log) :
            http_log[i] \in AuthStatuses => (i = Len(http_log) /\ outcome = "auth")
    /\ outcome = "auth" =>
            (http_log # <<>> /\ http_log[Len(http_log)] \in AuthStatuses)

\* the second attempt of a request was answered 403 after a retried failure:
\* the call ended with the AuthFailure with one retry left
C17_Witness ==
    /\ outcome = "auth"
    /\ Len(http_log) = 2
    /\ http_log[2] = "403"
    /\ attempt = 1
    /\ attempt < max_retries

----------------------------------------------------------------------------
(* Properties of the state store *)

\* C19: the save is crash-consistent: whatever step of a save the process
\* dies at, the state file is absent (as before the first save) or a complete
\* document, and it is either the snapshot it held before the save or the
\* snapshot of the state being saved; the load of the next start never meets
\* a partial text.
C19_SaveCrashConsistent ==
    /\ [](Loadable(path_file))
    /\ [](pc # "load_failed")
    /\ [][path_file' # path_file => (pc = "replace" /\ path_file' = save(state))]_vars

\* the process died while the temporary file was half written: the state
\* file still holds the complete previous snapshot, not the new one
C19_Witness ==
    /\ pc = "down"
    /\ tmp_file.exists /\ tmp_file.written = 1
    /\ tmp_file.data = <<state_to_dict(state)>>
    /\ Complete(path_file)
    /\ path_file # save(state)

\* C20: a state that is saved and loaded again is the same state: balances,
\* filled flags, the active order with all its fields (or its absence), the
\* emergency flag and reason, the price history and the event log.
C20_RoundTrip ==
    [][(pc = "saved" /\ pc' = "loaded") =>
            /\ path_file = save(state)
            /\ state' = state]_vars

\* a state with an active order, an emergency and a price history has been
\* saved and loaded
C20_Witness ==
    /\ pc = "loaded"
    /\ path_file = save(state)
    /\ state.active_order # <<>>
    /\ state.active_order[1].created_ts = 1515
    /\ state.emergency_mode.enabled
    /\ Len(state.xauusd_history) = 2
    /\ state.events # <<>>

StateKeys == DOMAIN DefaultState

\* the state has every flag and both balances
WellFormed(st) ==
    /\ DOMAIN st.balances = {"XAUT", "USDT"}
    /\ DOMAIN st.filled_buy_levels = BuyLevelSet
    /\ DOMAIN st.filled_sell_steps = SellStepSet

\* C21: load is tolerant: a missing file loads as the default state, and a
\* file with keys missing, at the top level or inside the maps of flags and
\* balances, loads as a state that has all four buy-level flags, all three
\* sell-step flags and both balances.
C21_LoadBackfillsAllKeys ==
    [][pc' = "loaded" =>
            /\ ~path_file.exists => state' = DefaultState
            /\ DOMAIN state' = StateKeys
            /\ WellFormed(state')]_vars

\* the part of C21 the code does: a missing file loads as the default state,
\* a top-level key that is absent loads as its default, and the maps of a key
\* that is present are loaded as they are in the file
C21_TopLevelBackfilled ==
    [][pc' = "loaded" =>
            /\ ~path_file.exists => state' = DefaultState
            /\ DOMAIN state' = StateKeys
            /\ path_file.exists =>
                  \A k \in {"balances", "filled_buy_levels", "filled_sell_steps", "events"} :
                     state'[k] = IF k \in DOMAIN path_file.data[1]
                                 THEN path_file.data[1][k] ELSE DefaultState[k]]_vars

----------------------------------------------------------------------------
(* Properties of a tick *)

\* this step starts a tick that gets the book but no reference price
NoReferencePrice == cycles' = cycles + 1 /\ bid' # NoPrice /\ fair' = NoPrice

\* C22: a tick without a reference price skips trading and does not end the
\* loop: the only change of the state is the logged reason (no fill, no
\* order, no flag), no signed request is sent, the decision engine is not
\* run, the state is saved and the loop is at the start of the next tick.
C22_PriceUnavailableSkipsTrading ==
    [][NoReferencePrice =>
            /\ state' = add_event(state, "XAUUSD unavailable")
            /\ NewEvent("XAUUSD unavailable")
            /\ requests' = <<>>
            /\ buy_level' = "None" /\ sell_step' = "None"
            /\ deviation' = NoDeviation
            /\ mode' = mode
            /\ path_file' = save(state')
            /\ pc' = "fetch"]_vars

\* a tick of a live bot with an order pending found no reference price: the
\* order is still in the slot, the reason is logged and saved, and the loop
\* goes on
C22_Witness ==
    /\ pc = "fetch"
    /\ cycles > 1 /\ cycles < MaxCycles
    /\ bid # NoPrice /\ fair = NoPrice
    /\ LastEvent(state) = "XAUUSD unavailable"
    /\ mode = "LIVE"
    /\ Slot # <<>>
    /\ requests = <<>>
    /\ path_file = save(state)

\* the emergency state that the risk evaluation gives on history h
RiskOn(h, dev) ==
    update_emergency_mode([state EXCEPT !.xauusd_history = h], dev).emergency_mode

\* C23: the steps of a tick that gets both prices come in one order: price
\* fetch, history update, risk evaluation (on the updated history), then
\* reconciliation, then the decision (which acts only with the slot empty and
\* no emergency), then the save; a tick begins only after the save of the
\* one before, so ticks do not overlap.
C23_TickOrder ==
    [][/\ pc = "start" => pc' \in {"fetch", "crashed"}
       /\ pc = "fetch" => pc' \in {"fetch", "reconcile", "persist"}
       /\ pc = "reconcile" => pc' \in {"decide", "persist"}
       /\ pc = "decide" => pc' = "persist"
       /\ pc = "persist" => pc' = "fetch"
       /\ cycles' # cycles => (pc = "fetch" /\ cycles' = cycles + 1)
       /\ (pc = "fetch" /\ fair' # NoPrice) =>
            LET h == state'.xauusd_history
            IN  /\ bid' # NoPrice /\ ask' # NoPrice
                /\ deviation' = compute_deviation_pct(bid', ask', fair')
                /\ h # <<>> /\ h[Len(h)] = [ts |-> now, price |-> fair']
                /\ state'.emergency_mode = RiskOn(h, deviation')
                /\ state'.active_order = state.active_order
                /\ FlagsUnchanged
                /\ buy_level' = "None" /\ sell_step' = "None"
       /\ pc = "reconcile" =>
            /\ <<bid, ask, fair, deviation>>' = <<bid, ask, fair, deviation>>
            /\ state'.xauusd_history = state.xauusd_history
            /\ state'.emergency_mode = state.emergency_mode
            /\ buy_level' = "None" /\ sell_step' = "None"
       /\ pc = "decide" =>
            /\ state'.xauusd_history = state.xauusd_history
            /\ state'.emergency_mode = state.emergency_mode
            /\ ~MayDecide(state) => (state' = state /\ requests' = requests)
       /\ pc = "persist" => (state' = state /\ path_file' = save(state))]_vars

\* the first tick of a bot whose loaded history holds a price 2% above
\* today's: the risk evaluation saw the price of this tick in the history and
\* entered the emergency on the 24h change, before reconciliation
C23_Witness ==
    /\ pc = "reconcile"
    /\ cycles = 1
    /\ Len(state.xauusd_history) = 2
    /\ state.emergency_mode = [enabled |-> TRUE, reason |-> <<"XAUUSD 24h">>]
    /\ LastEvent(state) = "EMERGENCY entered"

----------------------------------------------------------------------------
(* Properties of the retry loop of the signed request *)

Retryable == {"429", "500", "timeout", "lost response"}

\* C24: a signed request ends after at most max_retries + 1 attempts: a 429
\* and any other failure but 401/403 is retried up to max_retries times,
\* after a delay of 0.5 s times the number of the attempt; the first 200 is
\* returned and is the last attempt; when the retries are used up the last
\* error is raised to the caller.
C24_BoundedRetries ==
    /\ Len(http_log) <= max_retries + 1
    /\ \A i \in 1..Len(sleeps) : sleeps[i] = i
    /\ \A i \in 1..Len(http_log) :
            /\ i < Len(http_log) => http_log[i] \in Retryable
            /\ http_log[i] = "200" => outcome = "returned"
    /\ outcome = "pending" =>
            /\ attempt = Len(http_log) /\ Len(sleeps) = attempt
            /\ attempt <= max_retries
            /\ \A i \in 1..Len(http_log) : http_log[i] \in Retryable
    /\ outcome = "returned" => (http_log # <<>> /\ http_log[Len(http_log)] = "200")
    /\ outcome \in {"returned", "auth", "raised"} => Len(sleeps) = Len(http_log) - 1
    /\ outcome = "raised" =>
            /\ Len(http_log) = max_retries + 1
            /\ http_log[Len(http_log)] \in Retryable

\* a request was rate-limited, timed out and was rate-limited again: after
\* delays of 0.5 s and 1.0 s the third attempt's error was raised
C24_Witness ==
    /\ outcome = "raised"
    /\ http_log = <<"429", "timeout", "429">>
    /\ sleeps = <<1, 2>>

----------------------------------------------------------------------------
(* Properties of the event log *)

\* C25: the event log is a ring of 10: after any number of add_event calls
\* it holds at most 10 events, and they are the most recent ones, in the
\* order they were added, the newest last.
C25_EventRing ==
    /\ [](Len(state.events) = IF cycles < EventCapacity THEN cycles ELSE EventCapacity)
    /\ [](\A i \in 1..Len(state.events) :
                state.events[i].stamp = cycles - Len(state.events) + i)
    /\ [][LET old == state.events
              new == state'.events
          IN  /\ new # <<>>
              /\ new[Len(new)].stamp = cycles'
              /\ SubSeq(new, 1, Len(new) - 1) =
                    IF Len(old) < EventCapacity THEN old ELSE Tail(old)]_vars

\* twelve events were added: the log holds the third to the twelfth
C25_Witness ==
    /\ cycles = 12
    /\ Len(state.events) = 10
    /\ state.events[1].stamp = 3
    /\ state.events[10].stamp = 12

----------------------------------------------------------------------------
(* Properties of rounding *)

SimulatedBuy(level) == pc = "trade" /\ buy_level' = level /\ state' # state

SimulatedSell(step) ==
    pc = "trade" /\ buy_level' = "None" /\ sell_step' = step /\ state' # state

\* C26: price and quantity are rounded down, so a computed order never
\* exceeds the balance: every simulated buy has limit_price * qty no greater
\* than the free quote balance times the level's allocation, every simulated
\* sell has qty no greater than the base balance, and in a dry run neither
\* balance ever becomes negative.  In the machine's arithmetic this fails.
C26_NeverExceedsBalance ==
    /\ [](~Less(state.balances.XAUT, Zero) /\ ~Less(state.balances.USDT, Zero))
    /\ [][\A level \in BuyLevelSet :
            SimulatedBuy(level) =>
                LET order == BuyOrderFloat(state, level, bid')
                IN  ~Less(order.budget, FMul(order.limit_price, order.qty))]_vars
    /\ [][\A step \in SellStepSet :
            SimulatedSell(step) =>
                ~Less(state.balances.XAUT, SellOrderFloat(state, step, ask').qty)]_vars

\* In exact arithmetic, where the product of the floor and the step is the
\* multiple of the step itself, the balances of the control loop stay at or
\* above zero.
C26_ExactArithmetic ==
    state.balances.XAUT >= 0 /\ state.balances.USDT >= 0

----------------------------------------------------------------------------
(* Properties of an order left in the slot outside live trading *)

Stranded == mode = "DRY_RUN" /\ Slot # <<>>

\* C27: once the mode is DRY_RUN while an Active Order occupies the slot,
\* after a fallback from live trading or because the order was loaded from
\* the state file into a dry run, the order is never reconciled again: the
\* mode stays DRY_RUN, the slot keeps the order in every later state, no
\* signed request is sent and so no order placed, and no fill is simulated
\* (the balances and the filled flags stay as they are).
C27_StrandedOrder ==
    /\ [][(mode = "LIVE" /\ mode' = "DRY_RUN" /\ Slot # <<>>) =>
            (state'.active_order # <<>>
             /\ SameOrder(state'.active_order[1], Slot[1]))]_vars
    /\ [][Stranded =>
            /\ mode' = "DRY_RUN"
            /\ state'.active_order = state.active_order
            /\ NewRequests = <<>>
            /\ ~NewEvent("SIMULATED BUY") /\ ~NewEvent("SIMULATED SELL")
            /\ ~NewEvent("placed")
            /\ state'.balances = state.balances
            /\ FlagsUnchanged]_vars

\* an order was placed live, an auth error then ended live trading, and in
\* the third tick the deviation breaches the threshold of L1, which is not
\* filled, with no emergency: the decision step passed and left the order
C27_Witness ==
    /\ Stranded
    /\ HasEvent(state, "MEXC auth error")
    /\ cycles >= 3
    /\ pc = "persist"
    /\ ~state.emergency_mode.enabled
    /\ ~state.filled_buy_levels.L1
    /\ PctLE(deviation, settings_thresholds.buy.L1)
    /\ buy_level = "None"

\* a dry run was started with an order loaded from the state file: two
\* ticks later the order is still in the slot
C27_LoadedOrderStranded ==
    /\ Stranded
    /\ ~HasEvent(state, "MEXC auth error")
    /\ Slot[1] = LoadedOrder
    /\ cycles >= 2
    /\ pc = "persist"
    /\ ~state.emergency_mode.enabled
    /\ PctLE(deviation, settings_thresholds.buy.L1)

----------------------------------------------------------------------------
(* Properties of a placement on the exchange *)

PlaceCalls == {"place BUY", "place SELL"}

\* the attempts of the call that the exchange processed: each POST of
\* /api/v3/order it processes creates an order, for the payload carries no
\* client order id by which a repeated POST could be told from a new one
Accepted(log) == {i \in 1..Len(log) : log[i] \in {"200", "lost response"}}

\* C28: one call of place_limit_order creates at most one order on the
\* exchange: the POST is re-sent only after an attempt the exchange did not
\* accept, so the exchange never holds two orders for one placement, and
\* every order the exchange accepted is returned to the caller, which
\* records it in the active-order slot.
C28_AtMostOneOrder ==
    requests[1] \in PlaceCalls =>
        /\ Cardinality(Accepted(http_log)) <= 1
        /\ \A i \in Accepted(http_log) : i = Len(http_log)
        /\ (outcome # "pending" /\ Accepted(http_log) # {}) => outcome = "returned"

\* What holds of the code: the call returns an order id, which the caller
\* records, only for the last attempt, and that attempt was accepted.
C28_ReturnedWasAccepted ==
    (requests[1] \in PlaceCalls /\ outcome = "returned") =>
        Len(http_log) \in Accepted(http_log)

====
